---- MODULE Spec2Model ----
(***************************************************************************)
(* HourlySignal: the multi-provider orchestration layer.                   *)
(*                                                                         *)
(*   SpecKeys       the key-rotating news clients (GNewsService.request,   *)
(*                  NewsDataService.fetchNews)                             *)
(*   SpecAI         the provider-failover AI gateway (BeastModeAI)         *)
(*   SpecPipeline   the orchestrator (Pipeline.run) under concurrent calls *)
(*   SpecPipelineLive  the same, every awaited call settling               *)
(*   SpecScheduler  the scheduler driven by remote config and counters     *)
(*   SpecSchedulerLive  the same, every awaited call settling              *)
(*   SpecMerge      the aggregator's merge (mergeAndDeduplicate)            *)
(*   SpecFetch      the aggregator's fetch of one category                  *)
(*   SpecOriginality  the originality agent (ensureOriginal)               *)
(*   SpecDryRun     the orchestrator's dry run (Pipeline.dryRun)             *)
(*   SpecSheets     the remote config (GoogleSheetsConfig.getConfig)         *)
(*   SpecThread     the posting adapter's thread (postThread)                *)
(*   SpecQuality    the quality loop of run() (evaluate, Memory)             *)
(*   SpecViral      the virality stage of run() (ensureViral)                *)
(*   SpecSummarize  one summarize call of the summarizer agent            *)
(*   SpecPost       postTweet calls of the posting adapter                 *)
(*   SpecNews       the text of a news-mode run, summarizer to posting     *)
(*                                                                         *)
(* Every component owns its own variables; a specification exercises one   *)
(* component and leaves the variables of the others as constructed.        *)
(***************************************************************************)
EXTENDS Integers, Sequences, FiniteSets, TLC

VARIABLES
    \* ---- key-rotating news client (one service object) ----
    svc,               \* which INewsFetcher class the object is
    apiKeys,           \* number of credentials in this.apiKeys
    keyKind,           \* environment: how the provider answers each credential
    currentKeyIndex,   \* this.currentKeyIndex (0-based)
    exhaustedKeys,     \* this.exhaustedKeys (GNews only), as key indexes
    reqPc,             \* position of the request in flight
    attempts,          \* local: attempts
    retry,             \* local: retry (GNews inner loop)
    results,           \* history: outcome of every finished request
    foundExhausted,    \* history: credentials that answered a hard quota/auth failure
    calledThisReq,     \* history: credentials an HTTP call was issued with, this request
    retriedExhausted,  \* history: an HTTP call was issued with a credential found
                       \* exhausted by an earlier request
    lastThrottled,     \* history: the last answer of this request was a throttle signal
    \* ---- AI gateway (BeastModeAI singleton) ----
    mistral,             \* this.mistral is configured (PRIMARY)
    gemini,              \* this.gemini is configured (BACKUP)
    geminiDisabled,      \* this.geminiDisabled
    geminiDisabledUntil, \* this.geminiDisabledUntil (minutes)
    geminiFailCount,     \* this.geminiFailCount
    callCount,           \* this.callCount
    now,                 \* Date.now() (minutes)
    genPc,               \* position of the generate call in flight
    prompt,              \* its prompt
    startedInWindow,     \* history: it was made while a rate-limit cooldown was running
    primaryOutcome,      \* history: what the primary provider did in it
    secondaryOutcome,    \* history: what the secondary provider did in it
    genResult,           \* what the last generate call gave its caller ("none" while
                         \* it is in flight)
    openedBy,            \* history: what opened the circuit last
    failStreak,          \* history: secondary calls that failed without a rate limit
                         \* since the last one that succeeded or was rate limited
    \* ---- orchestrator (one Pipeline instance) ----
    pipelineIsRunning,   \* this.isRunning
    frame,               \* per caller: the locals of its run() call in flight
    finished,            \* history: the last run() call that returned, forgotten
                         \* when the next run gets past the guard
    runsStarted,         \* number of run() calls made so far
    \* ---- scheduler (one Scheduler instance, the StatsService singleton) ----
    schedulerIsRunning,  \* this.isRunning
    intervalId,          \* this.intervalId: the chain whose timer it names, or "null"
    chain,               \* per chain: its scheduleNext() call in flight or its timer
    tweetsToday,         \* statsService.stats.tweetsToday
    remainingQuota,      \* statsService.stats.remainingQuota
    lastResetDate,       \* statsService.stats.lastResetDate, as a day number
    today,               \* new Date().toDateString(), as a day number
    \* ---- news aggregator: merge ----
    mergeInput,          \* [...newsData, ...gNews]
    merged,              \* what mergeAndDeduplicate made of it
    remerged,            \* what mergeAndDeduplicate makes of the merged list
    mergePc,             \* how far the merge went
    \* ---- news aggregator: fetch ----
    fetchPc,             \* position of the fetch call in flight
    limit,               \* its limit
    optimizedQuery,      \* local: optimizedQuery is defined
    queryOutcome,        \* how generate came to its answer to the query prompt
    searchQuery,         \* local: the text of optimizedQuery
    rawAnswers,          \* environment: what each provider answers
    pending,             \* the providers whose fetchNews is in flight
    providerArticles,    \* locals: newsDataArticles, gNewsArticles
    fetchMerged,         \* local: merged
    fetched,             \* what fetch returned
    \* ---- originality agent: one ensureOriginal call ----
    ensurePc,            \* position of the call
    originalTitles,      \* its originalTitles
    maxAttempts,         \* its maxAttempts
    attempt,             \* local: attempt
    summary,             \* local: summary
    inputSummary,        \* history: the summary ensureOriginal was called with
    rewriteCalls,        \* history: rewriteOriginal calls issued
    originalResult,      \* what the call returned
    \* ---- orchestrator: one dryRun call ----
    dryPc,               \* position of the call
    dryConfig,           \* local: sheetConfig
    dryCatIndex,         \* the index of the for loop over categories
    dryCalled,           \* history: the adapter operations it has invoked
    drySummaries,        \* local: summaries.size
    \* ---- remote config (the GoogleSheetsConfig singleton) ----
    sheetUrl,            \* this.sheetUrl is set
    cachedConfig,        \* this.cachedConfig
    lastFetch,           \* this.lastFetch, as the number of the call that set it
    configPc,            \* position of the getConfig call in flight
    configCalls,         \* number of getConfig calls made so far
    fetchesIssued,       \* history: number of axios.get calls issued
    configResult,        \* what the last getConfig call gave its caller
    lastGood,            \* history: the last config parsed from a fetched sheet
    \* ---- posting adapter: one postThread call ----
    threadPc,            \* position of the call
    threadLen,           \* tweets.length
    threadIndex,         \* local: i
    threadRetries,       \* local: retries
    lastTweetId,         \* local: lastTweetId
    threadIds,           \* local: tweetIds
    threadLog,           \* history: the tweets the API accepted, with their reply target
    threadFailed,        \* history: the items given up
    threadResult,        \* what the call returned
    \* ---- quality loop of one category in Pipeline.run ----
    qualityPc,           \* position of the loop
    qSummary,            \* local: summary.oneLiner
    qIteration,          \* local: iteration
    qResponse,           \* history: what generate answered the last evaluate
    qEvaluation,         \* local: evaluation
    evaluated,           \* history: the texts given to evaluate
    memories,            \* MemoryManager.memories, newest first
    refineCalls,         \* history: number of refiner.refine calls
    passedOn,            \* history: the text given to ensureOriginal
    \* ---- virality stage of Pipeline.run ----
    viralPc,             \* position of the ensureViral call
    currentTweet,        \* local: currentTweet
    wasEnhanced,         \* local: wasEnhanced
    viralIteration,      \* local: i
    scored,              \* history: the texts scored, with what generate answered
    viralResult,         \* what ensureViral returned
    usedTweet,           \* megaTweet.tweets[0] after the stage
    \* ---- summarizer agent: one summarize call ----
    sumPc,               \* position of the call
    sumArticles,         \* its articles, by title
    sumOutcome,          \* how ai.summarize settled
    sumOneLiner,         \* the oneLiner of the summary returned
    \* ---- posting adapter: postTweet and the persisted counters ----
    postPc,              \* position of the postTweet call
    postStats,           \* StatsService: this.stats
    postCalls,           \* number of postTweet calls made so far
    rateLimit,           \* the rateLimit of the latest API answer
    postOutcome,         \* how the latest call ended
    sentBefore,          \* history: tweetsToday when the latest call began
    \* ---- news text: one category of a news-mode run ----
    newsPc,              \* position of the run
    newsTitles,          \* the titles of the articles fetched
    newsSummary,         \* summary.oneLiner, then finalSummary
    newsIteration,       \* local: iteration
    newsAttempt,         \* ensureOriginal's attempt
    newsTweet,           \* megaTweet.tweets[0]
    newsPosted,          \* the text handed to the posting adapter, if any
    newsAnswered,        \* history: a provider answered some gateway call
    newsDefaulted        \* history: the calls that got the safe default

keyVars == <<svc, apiKeys, keyKind, currentKeyIndex, exhaustedKeys, reqPc, attempts,
             retry, results, foundExhausted, calledThisReq, retriedExhausted,
             lastThrottled>>

aiVars == <<mistral, gemini, geminiDisabled, geminiDisabledUntil, geminiFailCount,
            callCount, now, genPc, prompt, startedInWindow, primaryOutcome,
            secondaryOutcome, genResult, openedBy, failStreak>>

pipelineVars == <<pipelineIsRunning, frame, finished, runsStarted>>

schedulerVars == <<schedulerIsRunning, intervalId, chain, tweetsToday, remainingQuota,
                   lastResetDate, today>>

mergeVars == <<mergeInput, merged, remerged, mergePc>>

fetchVars == <<fetchPc, limit, optimizedQuery, queryOutcome, searchQuery, rawAnswers,
               pending, providerArticles, fetchMerged, fetched>>

originalityVars == <<ensurePc, originalTitles, maxAttempts, attempt, summary, inputSummary,
                     rewriteCalls, originalResult>>

dryRunVars == <<dryPc, dryConfig, dryCatIndex, dryCalled, drySummaries>>

sheetsVars == <<sheetUrl, cachedConfig, lastFetch, configPc, configCalls, fetchesIssued,
                configResult, lastGood>>

threadVars ==
    <<threadPc, threadLen, threadIndex, threadRetries, lastTweetId, threadIds,
      threadLog, threadFailed, threadResult>>

qualityVars ==
    <<qualityPc, qSummary, qIteration, qResponse, qEvaluation, evaluated, memories,
      refineCalls, passedOn>>

viralVars ==
    <<viralPc, currentTweet, wasEnhanced, viralIteration, scored, viralResult,
      usedTweet>>

summarizeVars == <<sumPc, sumArticles, sumOutcome, sumOneLiner>>

postVars == <<postPc, postStats, postCalls, rateLimit, postOutcome, sentBefore>>

newsVars ==
    <<newsPc, newsTitles, newsSummary, newsIteration, newsAttempt, newsTweet,
      newsPosted, newsAnswered, newsDefaulted>>

vars ==
    <<keyVars, aiVars, pipelineVars, schedulerVars, mergeVars, fetchVars,
      originalityVars, dryRunVars, sheetsVars, threadVars, qualityVars,
      viralVars, summarizeVars, postVars, newsVars>>

\* what the actions of one component leave alone
notKeys ==
    <<aiVars, pipelineVars, schedulerVars, mergeVars, fetchVars,
      originalityVars, dryRunVars, sheetsVars, threadVars, qualityVars,
      viralVars, summarizeVars, postVars, newsVars>>
notAI ==
    <<keyVars, pipelineVars, schedulerVars, mergeVars, fetchVars,
      originalityVars, dryRunVars, sheetsVars, threadVars, qualityVars,
      viralVars, summarizeVars, postVars, newsVars>>
notPipeline ==
    <<keyVars, aiVars, schedulerVars, mergeVars, fetchVars, originalityVars,
      dryRunVars, sheetsVars, threadVars, qualityVars, viralVars,
      summarizeVars, postVars, newsVars>>
notScheduler ==
    <<keyVars, aiVars, pipelineVars, mergeVars, fetchVars, originalityVars,
      dryRunVars, sheetsVars, threadVars, qualityVars, viralVars,
      summarizeVars, postVars, newsVars>>
notMerge ==
    <<keyVars, aiVars, pipelineVars, schedulerVars, fetchVars,
      originalityVars, dryRunVars, sheetsVars, threadVars, qualityVars,
      viralVars, summarizeVars, postVars, newsVars>>
notFetch ==
    <<keyVars, aiVars, pipelineVars, schedulerVars, mergeVars,
      originalityVars, dryRunVars, sheetsVars, threadVars, qualityVars,
      viralVars, summarizeVars, postVars, newsVars>>
notOriginality ==
    <<keyVars, aiVars, pipelineVars, schedulerVars, mergeVars, fetchVars,
      dryRunVars, sheetsVars, threadVars, qualityVars, viralVars,
      summarizeVars, postVars, newsVars>>
\* the dry run's steps say themselves what becomes of the scheduler's variables
notDryRun ==
    <<keyVars, aiVars, pipelineVars, mergeVars, fetchVars, originalityVars,
      sheetsVars, threadVars, qualityVars, viralVars, summarizeVars, postVars,
      newsVars>>
notSheets ==
    <<keyVars, aiVars, pipelineVars, schedulerVars, mergeVars, fetchVars,
      originalityVars, dryRunVars, threadVars, qualityVars, viralVars,
      summarizeVars, postVars, newsVars>>
notThread ==
    <<keyVars, aiVars, pipelineVars, schedulerVars, mergeVars, fetchVars,
      originalityVars, dryRunVars, sheetsVars, qualityVars, viralVars,
      summarizeVars, postVars, newsVars>>
notQuality ==
    <<keyVars, aiVars, pipelineVars, schedulerVars, mergeVars, fetchVars,
      originalityVars, dryRunVars, sheetsVars, threadVars, viralVars,
      summarizeVars, postVars, newsVars>>
notViral ==
    <<keyVars, aiVars, pipelineVars, schedulerVars, mergeVars, fetchVars,
      originalityVars, dryRunVars, sheetsVars, threadVars, qualityVars,
      summarizeVars, postVars, newsVars>>
notSummarize ==
    <<keyVars, aiVars, pipelineVars, schedulerVars, mergeVars, fetchVars,
      originalityVars, dryRunVars, sheetsVars, threadVars, qualityVars,
      viralVars, postVars, newsVars>>
notPost ==
    <<keyVars, aiVars, pipelineVars, schedulerVars, mergeVars, fetchVars,
      originalityVars, dryRunVars, sheetsVars, threadVars, qualityVars,
      viralVars, summarizeVars, newsVars>>
notNews ==
    <<keyVars, aiVars, pipelineVars, schedulerVars, mergeVars, fetchVars,
      originalityVars, dryRunVars, sheetsVars, threadVars, qualityVars,
      viralVars, summarizeVars, postVars>>

-----------------------------------------------------------------------------
(* Bounds *)
MaxKeys == 3
MaxRequests == 3
MaxTime == 7
MaxCalls == 4
MaxTextWords == 1
MaxRuns == 3
MaxCategories == 2
MaxDays == 1
MaxTweets == 1
MaxQuota == 1
MaxDaily == 1
MaxTitles == 3
MaxArticles == 2
MaxAttempts == 3
MaxConfigCalls == 3
MaxThread == 3
MaxPosts == 3

-----------------------------------------------------------------------------
(*                       KEY-ROTATING NEWS CLIENTS                         *)

Services == {"gnews", "newsdata"}

\* What one HTTP call can come back with.  h* are HTTP error statuses (with the
\* provider message that the code looks at), body* are NewsData 200-responses
\* whose status field is not 'success'.
HttpResponses == {"ok", "h429", "h403short", "h401", "h403limit", "h403other", "h500"}
BodyResponses == {"bodyRateLimit", "bodyError"}
HardFailures == {"h401", "h403limit"}

KeyKinds == {"good", "dead", "flaky"}

\* The answers a credential of each kind gives: a good one serves the request, a
\* dead one answers every call with a hard quota/auth failure, a flaky one may
\* answer anything.
Answers(s, kind) ==
    CASE kind = "good" -> {"ok"}
      [] kind = "dead" -> HardFailures
      [] OTHER -> IF s = "newsdata" THEN HttpResponses \cup BodyResponses
                                    ELSE HttpResponses

\* gnews.service.ts:50  isQpsLimit
IsQpsLimit(r) == r \in {"h429", "h403short"}

\* gnews.service.ts:58  isDailyLimit
IsDailyLimit(r) == r \in {"h401", "h403limit"}

\* newsdata.service.ts:40-47 and 55-58  isRateLimit
IsRateLimit(r) == r \in {"bodyRateLimit", "h401", "h403short", "h403limit", "h403other", "h429"}

\* the retry ceiling of the inner for loop, gnews.service.ts:36
MaxRetry == 3

\* (mutant) the cursor is not advanced on rotation
NextKeyIndexStuck(i, n) == i

\* (this.currentKeyIndex + 1) % this.apiKeys.length
NextKeyIndex(i, n) == (i + 1) % n

\* this.exhaustedKeys.add(apiKey)
MarkExhausted(set, k) == set \cup {k}

KeysInit ==
    /\ svc \in Services
    /\ apiKeys \in 1..MaxKeys
    /\ keyKind \in [0..(apiKeys - 1) -> KeyKinds]
    /\ currentKeyIndex = 0
    /\ exhaustedKeys = {}
    /\ reqPc = "idle"
    /\ attempts = 0
    /\ retry = 0
    /\ results = <<>>
    /\ foundExhausted = {}
    /\ calledThisReq = {}
    /\ retriedExhausted = FALSE
    /\ lastThrottled = FALSE

\* The request returns or throws: its outcome is recorded and the client is idle.
Finish(outcome) ==
    /\ results' = Append(results, outcome)
    /\ reqPc' = "idle"

\* An HTTP call is issued with credential k.
Issue(k) ==
    /\ calledThisReq' = calledThisReq \cup {k}
    /\ retriedExhausted' = (retriedExhausted \/ (k \in foundExhausted /\ k \notin calledThisReq))

\* A caller starts a request on the idle client (requests of one client are
\* made one after the other: fetcher.agent.ts awaits each fetchNews).
StartRequest ==
    /\ reqPc = "idle"
    /\ Len(results) < MaxRequests
    /\ reqPc' = "top"
    /\ attempts' = 0
    /\ retry' = 0
    /\ calledThisReq' = {}
    /\ lastThrottled' = FALSE
    /\ UNCHANGED <<svc, apiKeys, keyKind, currentKeyIndex, exhaustedKeys, results,
                   foundExhausted, retriedExhausted>>
    /\ UNCHANGED notKeys

\* GNewsService.request: head of the while loop, up to the first client.get.
G_Top ==
    /\ svc = "gnews"
    /\ reqPc = "top"
    /\ IF attempts >= apiKeys
         THEN \* throw new Error('All GNews API keys exhausted')
              /\ Finish("allExhausted")
              /\ UNCHANGED <<currentKeyIndex, attempts, retry, calledThisReq, retriedExhausted>>
         ELSE IF currentKeyIndex \in exhaustedKeys
           THEN /\ currentKeyIndex' = NextKeyIndex(currentKeyIndex, apiKeys)
                /\ attempts' = attempts + 1
                /\ UNCHANGED <<reqPc, results, retry, calledThisReq, retriedExhausted>>
           ELSE /\ retry' = 0
                /\ reqPc' = "await"
                /\ Issue(currentKeyIndex)
                /\ UNCHANGED <<currentKeyIndex, attempts, results>>
    /\ UNCHANGED <<svc, apiKeys, keyKind, exhaustedKeys, foundExhausted, lastThrottled>>
    /\ UNCHANGED notKeys

\* GNewsService.request: the awaited client.get settles.
G_Response ==
    /\ svc = "gnews"
    /\ reqPc = "await"
    /\ \E r \in Answers(svc, keyKind[currentKeyIndex]) :
        /\ foundExhausted' = IF r \in HardFailures
                               THEN foundExhausted \cup {currentKeyIndex}
                               ELSE foundExhausted
        /\ lastThrottled' = IsQpsLimit(r)
        /\ IF r = "ok"
             THEN /\ Finish("ok")
                  /\ UNCHANGED <<currentKeyIndex, exhaustedKeys, attempts, retry,
                                 calledThisReq, retriedExhausted>>
             ELSE IF IsQpsLimit(r)
               THEN IF retry + 1 < MaxRetry
                      THEN \* wait 2s, retry the same key
                           /\ retry' = retry + 1
                           /\ Issue(currentKeyIndex)
                           /\ UNCHANGED <<reqPc, results, currentKeyIndex, exhaustedKeys,
                                          attempts>>
                      ELSE \* the for loop ends: rotate
                           /\ retry' = retry + 1
                           /\ currentKeyIndex' = NextKeyIndex(currentKeyIndex, apiKeys)
                           /\ attempts' = attempts + 1
                           /\ reqPc' = "top"
                           /\ UNCHANGED <<results, exhaustedKeys, calledThisReq,
                                          retriedExhausted>>
               ELSE IF IsDailyLimit(r)
                 THEN /\ exhaustedKeys' = MarkExhausted(exhaustedKeys, currentKeyIndex)
                      /\ currentKeyIndex' = NextKeyIndex(currentKeyIndex, apiKeys)
                      /\ attempts' = attempts + 1
                      /\ reqPc' = "top"
                      /\ UNCHANGED <<results, retry, calledThisReq, retriedExhausted>>
                 ELSE \* throw error
                      /\ Finish("error")
                      /\ UNCHANGED <<currentKeyIndex, exhaustedKeys, attempts, retry,
                                     calledThisReq, retriedExhausted>>
    /\ UNCHANGED <<svc, apiKeys, keyKind>>
    /\ UNCHANGED notKeys

\* NewsDataService.fetchNews: head of the while loop, up to client.get.
N_Top ==
    /\ svc = "newsdata"
    /\ reqPc = "top"
    /\ IF attempts >= apiKeys
         THEN \* 'All NewsData API keys exhausted!': return []
              /\ Finish("allExhausted")
              /\ UNCHANGED <<calledThisReq, retriedExhausted>>
         ELSE /\ reqPc' = "await"
              /\ Issue(currentKeyIndex)
              /\ UNCHANGED results
    /\ UNCHANGED <<svc, apiKeys, keyKind, currentKeyIndex, exhaustedKeys, attempts, retry,
                   foundExhausted, lastThrottled>>
    /\ UNCHANGED notKeys

\* NewsDataService.fetchNews: the awaited client.get settles.
N_Response ==
    /\ svc = "newsdata"
    /\ reqPc = "await"
    /\ \E r \in Answers(svc, keyKind[currentKeyIndex]) :
        /\ foundExhausted' = IF r \in HardFailures
                               THEN foundExhausted \cup {currentKeyIndex}
                               ELSE foundExhausted
        /\ lastThrottled' = IsQpsLimit(r)
        /\ IF r = "ok"
             THEN /\ Finish("ok")
                  /\ UNCHANGED <<currentKeyIndex, attempts>>
             ELSE IF IsRateLimit(r)
               THEN /\ currentKeyIndex' = NextKeyIndex(currentKeyIndex, apiKeys)
                    /\ attempts' = attempts + 1
                    /\ reqPc' = "top"
                    /\ UNCHANGED results
               ELSE \* log.error, return []
                    /\ Finish("error")
                    /\ UNCHANGED <<currentKeyIndex, attempts>>
    /\ UNCHANGED <<svc, apiKeys, keyKind, exhaustedKeys, retry, calledThisReq,
                   retriedExhausted>>
    /\ UNCHANGED notKeys

NextKeys == StartRequest \/ G_Top \/ G_Response \/ N_Top \/ N_Response

-----------------------------------------------------------------------------
(*                    PROVIDER-FAILOVER AI GATEWAY                         *)

\* The keywords getSafeDefault looks for in the prompt.
Keywords == {"summary", "NEWS", "headline", "virality", "score", "Rewrite"}

\* The high-level operations that build a prompt and call generate.
Ops == {"summarize", "evaluate", "rewriteOriginal", "generateOpinion",
        "generateSearchQuery", "generateImagePrompt", "generateHeadline",
        "checkVirality", "enhanceVirality", "evaluateContentUrgency",
        "moderateContent", "generateCustomTopicTweet"}

\* The keywords that occur literally in each operation's prompt template
\* (the fixed text around the embedded ${...} values).
TemplateWords(op) ==
    CASE op = "summarize" -> {"summary", "NEWS", "score"}
      [] op = "evaluate" -> {"summary", "score"}
      [] op = "rewriteOriginal" -> {"Rewrite"}
      [] op = "generateOpinion" -> {"summary"}
      [] op = "generateHeadline" -> {"headline"}
      [] op = "checkVirality" -> {"virality", "score"}
      [] op = "enhanceVirality" -> {"Rewrite"}
      [] op = "evaluateContentUrgency" -> {"headline"}
      [] OTHER -> {}

\* The text a caller embeds in the template (a summary, a tweet, a topic...),
\* as the set of keywords that occur in it.
Texts == {t \in SUBSET Keywords : Cardinality(t) <= MaxTextWords}

Prompts == [op : Ops, text : Texts]

NoPrompt == [op |-> "none", text |-> {}]

\* prompt.includes(w)
Includes(p, w) == w \in (TemplateWords(p.op) \cup p.text)

\* BeastModeAI.getSafeDefault
\*   summaryDefault   'Breaking news update - check back soon!'
\*   headlineDefault  'News Digest | Today'
\*   scoreDefault     '{"score": 7, "suggestions": []}'
\*   rewriteDefault   'News: Latest headlines and updates!'
\*   genericDefault   'Update coming soon...'
GetSafeDefault(p) ==
    IF Includes(p, "summary") \/ Includes(p, "NEWS") THEN "summaryDefault"
    ELSE IF Includes(p, "headline") THEN "headlineDefault"
    ELSE IF Includes(p, "virality") \/ Includes(p, "score") THEN "scoreDefault"
    ELSE IF Includes(p, "Rewrite") THEN "rewriteDefault"
    ELSE "genericDefault"

SafeDefaults == {"summaryDefault", "headlineDefault", "scoreDefault", "rewriteDefault",
                 "genericDefault"}

\* What a provider's generate can throw: an Error whose message holds '429',
\* holds 'Too Many', holds neither, or is missing.
ProviderErrors == {"msg429", "msgTooMany", "msgOther", "noMessage"}

\* error.message?.includes('429') || error.message?.includes('Too Many')
IsRateLimitError(e) == e \in {"msg429", "msgTooMany"}

\* the cooldowns of handleGeminiFailure, in minutes
RateLimitCooldown == 5
FailCooldown == 2
FailThreshold == 3

\* (mutant) the cooldown is taken to be over at once
CooldownOverAtOnce(t, until) == TRUE

\* Date.now() > this.geminiDisabledUntil
CooldownOver(t, until) == t > until

\* BeastModeAI.isGeminiAvailable: whether the secondary may be called, and the
\* circuit state it leaves.
IsGeminiAvailable ==
    IF ~gemini THEN [avail |-> FALSE, disabled |-> geminiDisabled, fails |-> geminiFailCount]
    ELSE IF geminiDisabled
      THEN IF CooldownOver(now, geminiDisabledUntil)
             THEN [avail |-> TRUE, disabled |-> FALSE, fails |-> 0]
             ELSE [avail |-> FALSE, disabled |-> geminiDisabled, fails |-> geminiFailCount]
      ELSE [avail |-> TRUE, disabled |-> geminiDisabled, fails |-> geminiFailCount]

\* BeastModeAI.handleGeminiFailure
HandleGeminiFailure(e) ==
    /\ geminiFailCount' = geminiFailCount + 1
    /\ IF IsRateLimitError(e)
         THEN /\ geminiDisabled' = TRUE
              /\ geminiDisabledUntil' = now + RateLimitCooldown
              /\ openedBy' = "rate"
         ELSE IF geminiFailCount + 1 >= FailThreshold
           THEN /\ geminiDisabled' = TRUE
                /\ geminiDisabledUntil' = now + FailCooldown
                /\ openedBy' = "fails"
           ELSE UNCHANGED <<geminiDisabled, geminiDisabledUntil, openedBy>>

\* (mutant) the catch block lets the error out
CatchProviderErrorRethrow(e) == "rethrow"

\* generate's catch blocks (log, fall through): the error is swallowed
CatchProviderError(e) == "swallow"

\* The generate call in flight returns value v (or throws) to its caller.
Return(v) ==
    /\ genResult' = v
    /\ genPc' = "idle"
    /\ prompt' = NoPrompt

\* generate, from the end of the primary attempt: the secondary is called if its
\* circuit lets it, else the safe default is returned.
AfterPrimary(p) ==
    LET a == IsGeminiAvailable IN
    /\ geminiDisabled' = a.disabled
    /\ geminiFailCount' = a.fails
    /\ IF a.avail
         THEN /\ genPc' = "gemini"
              /\ prompt' = p
              /\ secondaryOutcome' = "called"
              /\ genResult' = "none"
         ELSE /\ secondaryOutcome' = IF gemini THEN "circuitOpen" ELSE "notConfigured"
              /\ genResult' = GetSafeDefault(p)
              /\ genPc' = "idle"
              /\ prompt' = NoPrompt
    /\ UNCHANGED <<geminiDisabledUntil, openedBy>>

AIInit ==
    /\ mistral \in BOOLEAN
    /\ gemini \in BOOLEAN
    /\ mistral \/ gemini          \* the constructor throws when neither is configured
    /\ geminiDisabled = FALSE
    /\ geminiDisabledUntil = 0
    /\ geminiFailCount = 0
    /\ callCount = 0
    /\ now = 1
    /\ genPc = "idle"
    /\ prompt = NoPrompt
    /\ startedInWindow = FALSE
    /\ primaryOutcome = "none"
    /\ secondaryOutcome = "none"
    /\ genResult = "none"
    /\ openedBy = "none"
    /\ failStreak = 0

\* generate(prompt) is called: up to the first await.
Generate ==
    /\ genPc = "idle"
    /\ callCount < MaxCalls
    /\ \E p \in Prompts :
        /\ callCount' = callCount + 1
        /\ startedInWindow' = (geminiDisabled /\ openedBy = "rate" /\ now < geminiDisabledUntil)
        /\ IF mistral
             THEN /\ genPc' = "mistral"
                  /\ prompt' = p
                  /\ primaryOutcome' = "called"
                  /\ secondaryOutcome' = "none"
                  /\ genResult' = "none"
                      /\ UNCHANGED <<geminiDisabled, geminiDisabledUntil, geminiFailCount,
                                 openedBy>>
             ELSE /\ primaryOutcome' = "notConfigured"
                  /\ AfterPrimary(p)
    /\ UNCHANGED <<mistral, gemini, now, failStreak>>
    /\ UNCHANGED notAI

\* await this.mistral.generate(prompt) resolves
MistralReturns ==
    /\ genPc = "mistral"
    /\ primaryOutcome' = "ok"
    /\ Return("primaryText")
    /\ UNCHANGED <<mistral, gemini, geminiDisabled, geminiDisabledUntil, geminiFailCount,
                   callCount, now, startedInWindow, secondaryOutcome, openedBy,
                   failStreak>>
    /\ UNCHANGED notAI

\* await this.mistral.generate(prompt) rejects
MistralThrows ==
    /\ genPc = "mistral"
    /\ \E e \in ProviderErrors :
        /\ primaryOutcome' = "threw"
        /\ IF CatchProviderError(e) = "swallow"
             THEN AfterPrimary(prompt)
             ELSE /\ Return("threw")
                  /\ UNCHANGED <<geminiDisabled, geminiDisabledUntil, geminiFailCount,
                                 secondaryOutcome, openedBy>>
    /\ UNCHANGED <<mistral, gemini, callCount, now, startedInWindow, failStreak>>
    /\ UNCHANGED notAI

\* await this.gemini.generate(prompt, 1) resolves
GeminiReturns ==
    /\ genPc = "gemini"
    /\ secondaryOutcome' = "ok"
    /\ failStreak' = 0
    /\ Return("secondaryText")
    /\ UNCHANGED <<mistral, gemini, geminiDisabled, geminiDisabledUntil, geminiFailCount,
                   callCount, now, startedInWindow, primaryOutcome, openedBy>>
    /\ UNCHANGED notAI

\* await this.gemini.generate(prompt, 1) rejects
GeminiThrows ==
    /\ genPc = "gemini"
    /\ \E e \in ProviderErrors :
        /\ secondaryOutcome' = IF IsRateLimitError(e) THEN "rateLimited" ELSE "threw"
        /\ failStreak' = IF IsRateLimitError(e) THEN 0 ELSE failStreak + 1
        /\ HandleGeminiFailure(e)
        /\ IF CatchProviderError(e) = "swallow"
             THEN Return(GetSafeDefault(prompt))
             ELSE Return("threw")
    /\ UNCHANGED <<mistral, gemini, callCount, now, startedInWindow, primaryOutcome>>
    /\ UNCHANGED notAI

\* Time passes (also while a provider call is awaited).
Tick ==
    /\ now < MaxTime
    /\ now' = now + 1
    /\ UNCHANGED <<mistral, gemini, geminiDisabled, geminiDisabledUntil, geminiFailCount,
                   callCount, genPc, prompt, startedInWindow, primaryOutcome,
                   secondaryOutcome, genResult, openedBy, failStreak>>
    /\ UNCHANGED notAI

NextAI == Generate \/ MistralReturns \/ MistralThrows \/ GeminiReturns \/ GeminiThrows \/ Tick

-----------------------------------------------------------------------------
(*                               PIPELINE                                  *)
(*                                                                         *)
(* Pipeline.run, one Pipeline instance, called by several callers.  A call *)
(* runs to its first await without giving up control; after that every     *)
(* action is the continuation that runs when one awaited call settles.     *)
(* Any awaited call may reject, which is more than the adapters do.        *)

\* who calls run() on the instance
Callers == {"c1", "c2"}

\* the adapters a run reaches
Adapters == {"config", "news", "ai", "image", "post"}

\* the texts the pipeline tells apart:
\*   ok         a usable text
\*   short      a text of 15 characters or less, or one that holds 'No news'
\*   noUpdates  a text that holds 'No updates'
TextKinds == {"ok", "short", "noUpdates"}

\* SheetConfig, the fields run() reads; activeCategories is its length
SheetConfigs ==
    [isActive : BOOLEAN, isNewsTweet : BOOLEAN, customTopic : BOOLEAN,
     generateImage : BOOLEAN, activeCategories : 0..MaxCategories]

NoConfig == [none |-> TRUE]

\* categories: activeCategories, or [config.bot.activeCategory] when empty
Categories(cfg) == IF cfg.activeCategories > 0 THEN cfg.activeCategories ELSE 1

\* config.app.maxReflexionIterations (MAX_REFLEXION_ITERATIONS || '3')
MaxReflexionIterations == 3

\* what run() gives its caller
Returned(success, tweetIds) ==
    [kind |-> "returned", success |-> success, tweetIds |-> tweetIds]

Failure == Returned(FALSE, <<>>)

Threw == [kind |-> "threw"]

NoResult == [kind |-> "none"]

\* the locals of one run() call, with the adapters it has called (called), the
\* tweets it has published (posted) and the categories that gave it articles
\* (fresh)
IdleFrame ==
    [pc |-> "idle", userOpinion |-> FALSE, sheetConfig |-> NoConfig,
     catIndex |-> 0, fresh |-> 0, iteration |-> 0, summaries |-> 0, texts |-> {},
     tweets |-> <<>>, imagePath |-> FALSE, called |-> {}, posted |-> 0,
     moderation |-> "none"]

\* the record of a run() call that has returned: who made it, whether it got
\* past the guard, its frame at the return, what the caller got
Record(c, accepted, f, result) ==
    [caller |-> c, accepted |-> accepted, sheetConfig |-> f.sheetConfig,
     catIndex |-> f.catIndex, fresh |-> f.fresh, called |-> f.called,
     posted |-> f.posted, moderation |-> f.moderation, tweets |-> f.tweets,
     result |-> result]

NoRun == Record("nobody", FALSE, IdleFrame, NoResult)

PipelineInit ==
    /\ pipelineIsRunning = FALSE
    /\ frame = [c \in Callers |-> IdleFrame]
    /\ finished = NoRun
    /\ runsStarted = 0

\* if (this.isRunning), with the variant that never rejects
IsRunningNever(flag) == FALSE

IsRunning(flag) == flag

\* finally { this.isRunning = false }, with the variant that leaves the flag
RunFinallyKeeps(flag) == flag

RunFinally(flag) == FALSE

\* catch (error) { return failure }, with the variant that lets the error out
CatchPipelineErrorRethrow == Threw

CatchPipelineError == Failure

\* if (!sheetConfig.isActive), with the variant that never stops
IsActiveAlways(cfg) == TRUE

IsActive(cfg) == cfg.isActive

\* if (summaries.size === 0), with the variant that never stops
NoSummariesNever(size) == FALSE

NoSummaries(size) == size = 0

\* TwitterService.postTweet; ok: the API accepted the tweet
PostTweet(ok) ==
    [success |-> ok, tweetId |-> IF ok THEN "id" ELSE "undefined",
     posted |-> IF ok THEN 1 ELSE 0]

\* TwitterService.postTweetWithImage; withMedia: the file exists, the upload and
\* the tweet with media went through; anything else falls back to postTweet
PostTweetWithImage(withMedia, ok) ==
    IF withMedia
    THEN [success |-> TRUE, tweetId |-> "id", posted |-> 1]
    ELSE PostTweet(ok)

\* if (result.tweetId) tweetIds = [result.tweetId]
ToIds(tweetId) == IF tweetId # "undefined" THEN <<tweetId>> ELSE <<>>

\* how the API answers one tweet of a thread: accepted, rate limited on all
\* three tries, or another error
ThreadAnswers == {"ok", "limited", "error"}

\* TwitterService.postThread, from tweet i on with ids already posted
RECURSIVE PostThreadFrom(_, _, _)
PostThreadFrom(answers, i, ids) ==
    IF i > Len(answers)
    THEN [success |-> TRUE, tweetIds |-> ids, posted |-> Len(ids)]
    ELSE IF answers[i] = "ok"
    THEN PostThreadFrom(answers, i + 1, Append(ids, "id"))
    ELSE IF answers[i] = "limited"
    THEN PostThreadFrom(answers, i + 1, ids)
    ELSE [success |-> Len(ids) > 0, tweetIds |-> ids, posted |-> Len(ids)]

PostThread(answers) == PostThreadFrom(answers, 1, <<>>)

\* TweetComposer.compose sets isThread to tweets.length > 1
IsThread(tw) == Len(tw) > 1

\* TwitterService.postMegaTweet
PostMegaTweet(tw, answers) ==
    IF IsThread(tw)
    THEN PostThread(answers)
    ELSE LET result == PostTweet(answers[1] = "ok")
         IN  [success |-> result.success, tweetIds |-> ToIds(result.tweetId),
              posted |-> result.posted]

\* TweetComposer.getSortedStories keeps a text of more than 15 characters
\* that does not hold 'No news'
Usable(t) == t \in {"ok", "noUpdates"}

\* TweetComposer.compose: one tweet, built from the first usable story, or
\* 'No updates at this time'
Compose(texts) ==
    LET stories == {t \in texts : Usable(t)}
    IN  IF stories = {} THEN {<<"noUpdates">>} ELSE {<<t>> : t \in stories}

\* (mutant) no first tweet is turned down
DegenerateNever(tweet) == FALSE

\* firstTweet.toLowerCase().includes('no updates') || firstTweet.length < 20
Degenerate(tweet) == tweet \in {"noUpdates", "short"}

\* summaries.get('indian-news') || Array.from(summaries.values())[0]
MainSummaries(texts) == IF texts = {} THEN {"undefined"} ELSE texts

\* the adapter behind each await of run()
AdapterOf(pc) ==
    CASE pc = "getConfig" -> {"config"}
      [] pc = "fetch" -> {"news"}
      [] pc \in {"generateNewsImage", "generateImageByCategory"} -> {"image"}
      [] pc \in {"customPost", "post"} -> {"post"}
      [] pc = "delay" -> {}
      [] OTHER -> {"ai"}

Called(f) == [f EXCEPT !.called = @ \cup AdapterOf(f.pc)]

\* the run goes on to its next await
Goto(c, f, pc) ==
    /\ frame' = [frame EXCEPT ![c] = [f EXCEPT !.pc = pc]]
    /\ UNCHANGED <<pipelineIsRunning, finished, runsStarted>>

\* the run returns through the finally block
Leave(c, f, result) ==
    /\ frame' = [frame EXCEPT ![c] = IdleFrame]
    /\ finished' = Record(c, TRUE, f, result)
    /\ pipelineIsRunning' = RunFinally(pipelineIsRunning)
    /\ UNCHANGED runsStarted

\* run(userOpinion), up to its first await
Run(c) ==
    /\ frame[c].pc = "idle"
    /\ runsStarted < MaxRuns
    /\ runsStarted' = runsStarted + 1
    /\ \E opinion \in BOOLEAN :
         IF IsRunning(pipelineIsRunning)
         THEN /\ finished' = Record(c, FALSE, IdleFrame, Failure)
              /\ UNCHANGED <<pipelineIsRunning, frame>>
         ELSE /\ pipelineIsRunning' = TRUE
              /\ frame' = [frame EXCEPT ![c] =
                             [IdleFrame EXCEPT !.pc = "getConfig",
                                               !.userOpinion = opinion]]
              /\ finished' = NoRun
    /\ UNCHANGED notPipeline

\* await getSheetConfig().getConfig()
GetConfigReturns(c) ==
    /\ frame[c].pc = "getConfig"
    /\ \E cfg \in SheetConfigs :
         LET f == [Called(frame[c]) EXCEPT !.sheetConfig = cfg]
         IN  IF ~IsActive(cfg)
             THEN Leave(c, f, Failure)
             ELSE IF ~cfg.isNewsTweet /\ cfg.customTopic
             THEN Goto(c, f, "moderateContent")
             ELSE Goto(c, f, "fetch")
    /\ UNCHANGED notPipeline

\* (mutant) every verdict is taken as safe
IsSafeAlways(moderation) == TRUE

\* moderation.isSafe
IsSafe(moderation) == moderation.isSafe

\* how generate comes to its answer to the moderation prompt: a provider
\* answers JSON with isSafe true or false, a provider answers a text without
\* JSON, a provider answers JSON that does not parse, or every provider fails
\* and the safe default is returned
ModerationAnswers == {"jsonSafe", "jsonUnsafe", "noJson", "badJson", "allFailed"}

\* BeastModeAI.moderateContent: the verdict it returns.  Of the safe defaults
\* only the score one holds braces, and it parses to an object without isSafe.
ModerateContent(answer, topic) ==
    CASE answer = "jsonSafe" -> [isSafe |-> TRUE]
      [] answer = "jsonUnsafe" -> [isSafe |-> FALSE]
      [] /\ answer = "allFailed"
         /\ GetSafeDefault([op |-> "moderateContent", text |-> topic]) = "scoreDefault"
           -> [isSafe |-> FALSE]
      [] OTHER -> [isSafe |-> TRUE]

\* where a verdict came from: "safe" and "unsafe" as decided from the answer,
\* "assumed" safe after an answer without a verdict, "outage" safe after the
\* failure of every provider
VerdictOrigin(answer, moderation) ==
    IF ~moderation.isSafe THEN "unsafe"
    ELSE IF answer = "jsonSafe" THEN "safe"
    ELSE IF answer = "allFailed" THEN "outage"
    ELSE "assumed"

\* await this.ai.moderateContent(customTopic); the origin of the verdict is
\* kept in the frame (moderation) as history
ModerateContentReturns(c) ==
    /\ frame[c].pc = "moderateContent"
    /\ \E answer \in ModerationAnswers, topic \in Texts :
         LET moderation == ModerateContent(answer, topic)
             f == [Called(frame[c]) EXCEPT
                      !.moderation = VerdictOrigin(answer, moderation)]
         IN  IF ~IsSafe(moderation)
             THEN Leave(c, f, Failure)
             ELSE Goto(c, f, "generateCustomTopicTweet")
    /\ UNCHANGED notPipeline

\* await this.ai.generateCustomTopicTweet(customTopic, 200)
CustomTweetReturns(c) ==
    /\ frame[c].pc = "generateCustomTopicTweet"
    /\ IF frame[c].sheetConfig.generateImage
       THEN Goto(c, Called(frame[c]), "generateNewsImage")
       ELSE Goto(c, Called(frame[c]), "customPost")
    /\ UNCHANGED notPipeline

\* await this.imageService.generateNewsImage(customTweet)
CustomImageReturns(c) ==
    /\ frame[c].pc = "generateNewsImage"
    /\ \E path \in BOOLEAN :
         Goto(c, [Called(frame[c]) EXCEPT !.imagePath = path], "customPost")
    /\ UNCHANGED notPipeline

\* await this.twitter.postTweetWithImage / postTweet (custom topic mode)
CustomPostReturns(c) ==
    /\ frame[c].pc = "customPost"
    /\ \E withMedia \in BOOLEAN, ok \in BOOLEAN :
         LET r == IF frame[c].imagePath
                  THEN PostTweetWithImage(withMedia, ok)
                  ELSE PostTweet(ok)
         IN  Leave(c, [Called(frame[c]) EXCEPT !.posted = r.posted],
                   Returned(r.success, ToIds(r.tweetId)))
    /\ UNCHANGED notPipeline

\* if (summaries.size === 0) after the for loop
AfterLoop(c, f) ==
    IF NoSummaries(f.summaries)
    THEN Leave(c, f, Failure)
    ELSE Goto(c, f, "headline")

\* the for loop over categories moves on
NextCategory(c, f) ==
    LET g == [f EXCEPT !.catIndex = @ + 1]
    IN  IF g.catIndex < Categories(g.sheetConfig)
        THEN Goto(c, g, "fetch")
        ELSE AfterLoop(c, g)

\* await this.fetcher.fetch(category, 10); fresh: articles.length > 0
FetchReturns(c) ==
    /\ frame[c].pc = "fetch"
    /\ \E fresh \in BOOLEAN :
         IF ~fresh
         THEN NextCategory(c, Called(frame[c]))
         ELSE Goto(c, [Called(frame[c]) EXCEPT !.fresh = @ + 1], "summarize")
    /\ UNCHANGED notPipeline

\* await this.summarizer.summarize(articles, maxChars)
SummarizeReturns(c) ==
    /\ frame[c].pc = "summarize"
    /\ LET f == [Called(frame[c]) EXCEPT !.iteration = 0]
       IN  IF f.iteration < MaxReflexionIterations
           THEN Goto(c, f, "evaluate")
           ELSE Goto(c, f, "ensureOriginal")
    /\ UNCHANGED notPipeline

\* await this.evaluator.evaluate(summary), in the while loop
EvaluateReturns(c) ==
    /\ frame[c].pc = "evaluate"
    /\ \E passed \in BOOLEAN :
         LET f == Called(frame[c])
             g == [f EXCEPT !.iteration = @ + 1]
         IN  IF passed
             THEN Goto(c, f, "ensureOriginal")
             ELSE IF g.iteration < MaxReflexionIterations
             THEN Goto(c, g, "evaluate")
             ELSE Goto(c, g, "ensureOriginal")
    /\ UNCHANGED notPipeline

\* await this.originalityAgent.ensureOriginal(...); summaries.set(category, ...)
EnsureOriginalReturns(c) ==
    /\ frame[c].pc = "ensureOriginal"
    /\ \E text \in TextKinds :
         Goto(c, [Called(frame[c]) EXCEPT !.summaries = @ + 1,
                                          !.texts = @ \cup {text}], "delay")
    /\ UNCHANGED notPipeline

\* await this.delay(1000)
DelayReturns(c) ==
    /\ frame[c].pc = "delay"
    /\ NextCategory(c, frame[c])
    /\ UNCHANGED notPipeline

\* this.composer.compose(headline, summaries, sheetConfig, opinion), then
\* the call of ensureViral
ComposeAndGo(c, f) ==
    \E tw \in Compose(f.texts) : Goto(c, [f EXCEPT !.tweets = tw], "ensureViral")

\* await this.headlineAgent.generate(summaries)
HeadlineReturns(c) ==
    /\ frame[c].pc = "headline"
    /\ \E mainSummary \in MainSummaries(frame[c].texts) :
         IF /\ ~frame[c].userOpinion
            /\ mainSummary \notin {"undefined", "noUpdates"}
         THEN Goto(c, Called(frame[c]), "generateOpinion")
         ELSE ComposeAndGo(c, Called(frame[c]))
    /\ UNCHANGED notPipeline

\* await this.ai.generateOpinion(mainSummary) in its own try/catch: the run
\* goes on whether the call returns or rejects
OpinionSettles(c) ==
    /\ frame[c].pc = "generateOpinion"
    /\ ComposeAndGo(c, Called(frame[c]))
    /\ UNCHANGED notPipeline

\* await this.viralityAgent.ensureViral(megaTweet.tweets[0], 1), then the
\* check of the first tweet
EnsureViralReturns(c) ==
    /\ frame[c].pc = "ensureViral"
    /\ \E enhanced \in BOOLEAN, finalTweet \in TextKinds :
         LET f == [Called(frame[c]) EXCEPT
                     !.tweets = IF enhanced THEN [@ EXCEPT ![1] = finalTweet] ELSE @]
         IN  IF Degenerate(f.tweets[1])
             THEN Leave(c, f, Failure)
             ELSE IF f.sheetConfig.generateImage
             THEN Goto(c, f, "generateImageByCategory")
             ELSE Goto(c, f, "post")
    /\ UNCHANGED notPipeline

\* await this.imageService.generateImageByCategory(activeCategory)
ImageReturns(c) ==
    /\ frame[c].pc = "generateImageByCategory"
    /\ \E path \in BOOLEAN :
         Goto(c, [Called(frame[c]) EXCEPT !.imagePath = path], "post")
    /\ UNCHANGED notPipeline

\* await this.twitter.postTweetWithImage / postMegaTweet (news mode)
PostReturns(c) ==
    /\ frame[c].pc = "post"
    /\ \E withMedia \in BOOLEAN, answers \in [1..Len(frame[c].tweets) -> ThreadAnswers] :
         LET f == frame[c]
             r == PostTweetWithImage(withMedia, answers[1] = "ok")
             m == PostMegaTweet(f.tweets, answers)
         IN  IF f.imagePath
             THEN Leave(c, [Called(f) EXCEPT !.posted = r.posted],
                        Returned(r.success, ToIds(r.tweetId)))
             ELSE Leave(c, [Called(f) EXCEPT !.posted = m.posted],
                        Returned(m.success, m.tweetIds))
    /\ UNCHANGED notPipeline

\* an awaited call inside the try block rejects: catch, then finally
AwaitRejects(c) ==
    /\ frame[c].pc \notin {"idle", "generateOpinion"}
    /\ Leave(c, Called(frame[c]), CatchPipelineError)
    /\ UNCHANGED notPipeline

\* a continuation of a run in flight
Settle(c) ==
    \/ GetConfigReturns(c)
    \/ ModerateContentReturns(c)
    \/ CustomTweetReturns(c)
    \/ CustomImageReturns(c)
    \/ CustomPostReturns(c)
    \/ FetchReturns(c)
    \/ SummarizeReturns(c)
    \/ EvaluateReturns(c)
    \/ EnsureOriginalReturns(c)
    \/ DelayReturns(c)
    \/ HeadlineReturns(c)
    \/ OpinionSettles(c)
    \/ EnsureViralReturns(c)
    \/ ImageReturns(c)
    \/ PostReturns(c)
    \/ AwaitRejects(c)

NextPipeline == \E c \in Callers : Run(c) \/ Settle(c)

-----------------------------------------------------------------------------
(*                               SCHEDULER                                 *)
(*                                                                         *)
(* The scheduler that reads the remote config and the persisted counters.  *)
(* start() launches a chain of scheduleNext() calls linked by one-shot     *)
(* timers; stop() followed by start() while a cycle is still awaiting      *)
(* launches a second chain next to the first.                              *)

\* the chains of scheduleNext() calls that can be alive together
Chains == {"a", "b"}

\* setTimeout delays of the two early returns, minutes
PausedWait == 5

CapWait == 60

\* sheetConfig.maxDailyTweets || 17
DefaultMaxDaily == 17

\* config.app.tweetIntervalMinutes (TWEET_INTERVAL_MINUTES || '85')
DefaultInterval == 85

\* tweetInterval as parsed from the sheet, minutes
TweetIntervals == {0, 30}

\* SheetConfig, the fields scheduleNext() reads
SchedConfigs ==
    [isActive : BOOLEAN, isNewsTweet : BOOLEAN, maxDailyTweets : 0..MaxDaily,
     tweetInterval : TweetIntervals]

\* evaluateContentUrgency: suggestedInterval 20 (live), 45 (high), 85 (normal)
SuggestedIntervals == {20, 45, 85}

\* const maxDaily = sheetConfig.maxDailyTweets || 17
EffectiveMaxDaily(cfg) ==
    IF cfg.maxDailyTweets # 0 THEN cfg.maxDailyTweets ELSE DefaultMaxDaily

\* let interval = sheetConfig.tweetInterval || config.app.tweetIntervalMinutes
BaseInterval(cfg) ==
    IF cfg.tweetInterval # 0 THEN cfg.tweetInterval ELSE DefaultInterval

\* if (currentSent >= maxDaily || stats.remainingQuota <= 0)
LimitReached(cfg, sent, quota) == sent >= EffectiveMaxDaily(cfg) \/ quota <= 0

\* the variant that takes the suggestion whatever it is
AdoptSuggestionAlways(interval, suggested) == suggested

\* if (evaluation.suggestedInterval < interval) interval = suggestedInterval
AdoptSuggestion(interval, suggested) ==
    IF suggested < interval THEN suggested ELSE interval

\* one scheduleNext() call and the timer it leaves behind:
\*   pc       "none": no call, no timer; "timer": its timer is pending;
\*            else the await the call is at
\*   tweetInterval  local: sheetConfig.tweetInterval
\*   interval local: interval
\*   armed    delay of the pending timer, minutes
\*   capped   history: when the cycle read the counters, posts sent today had
\*            reached the configured maximum or the remaining quota was <= 0
\*   ran      history: the cycle ran the pipeline
NoChain ==
    [pc |-> "none", tweetInterval |-> 0, interval |-> 0, armed |-> 0,
     capped |-> FALSE, ran |-> FALSE]

\* StatsService.loadStats, run once by the constructor: the persisted counters
\* of today, or fresh ones when the file is of another day
LoadStats ==
    /\ today = 0
    /\ lastResetDate = today
    /\ tweetsToday \in 0..MaxTweets
    /\ remainingQuota \in 0..MaxQuota

SchedulerInit ==
    /\ schedulerIsRunning = FALSE
    /\ intervalId = "null"
    /\ chain = [ch \in Chains |-> NoChain]
    /\ LoadStats

\* this.intervalId = setTimeout(() => this.scheduleNext(), minutes), return
Arm(ch, f, minutes) ==
    /\ chain' = [chain EXCEPT ![ch] = [f EXCEPT !.pc = "timer", !.tweetInterval = 0,
                                                !.interval = 0, !.armed = minutes]]
    /\ intervalId' = ch

\* the cycle goes on to its next await
Await(ch, f, pc) ==
    /\ chain' = [chain EXCEPT ![ch] = [f EXCEPT !.pc = pc]]
    /\ UNCHANGED intervalId

\* start(): the first scheduleNext() call, up to its await of getConfig()
Start ==
    /\ ~schedulerIsRunning
    /\ \E ch \in Chains :
         /\ chain[ch].pc = "none"
         /\ chain' = [chain EXCEPT ![ch] = [NoChain EXCEPT !.pc = "getConfig"]]
    /\ schedulerIsRunning' = TRUE
    /\ UNCHANGED <<intervalId, tweetsToday, remainingQuota, lastResetDate, today>>
    /\ UNCHANGED notScheduler

\* stop(): clears the timer this.intervalId names, if it is still pending
Stop ==
    /\ schedulerIsRunning
    /\ IF intervalId # "null"
       THEN /\ chain' = [ch \in Chains |->
                           IF ch = intervalId /\ chain[ch].pc = "timer"
                           THEN NoChain ELSE chain[ch]]
            /\ intervalId' = "null"
       ELSE UNCHANGED <<chain, intervalId>>
    /\ schedulerIsRunning' = FALSE
    /\ UNCHANGED <<tweetsToday, remainingQuota, lastResetDate, today>>
    /\ UNCHANGED notScheduler

\* a timer fires: scheduleNext(), up to its await of getConfig()
TimerFires(ch) ==
    /\ chain[ch].pc = "timer"
    /\ IF ~schedulerIsRunning
       THEN chain' = [chain EXCEPT ![ch] = NoChain]
       ELSE chain' = [chain EXCEPT ![ch] = [NoChain EXCEPT !.pc = "getConfig"]]
    /\ UNCHANGED <<schedulerIsRunning, intervalId, tweetsToday, remainingQuota,
                   lastResetDate, today>>
    /\ UNCHANGED notScheduler

\* await getSheetConfig().getConfig() returns: the counters are read, then the
\* pause check, the daily limit check and the choice of the interval
SchedConfigReturns(ch) ==
    /\ chain[ch].pc = "getConfig"
    /\ \E cfg \in SchedConfigs :
         LET f == [chain[ch] EXCEPT
                     !.capped = (tweetsToday >= cfg.maxDailyTweets \/ remainingQuota <= 0)]
             g == [f EXCEPT !.tweetInterval = cfg.tweetInterval,
                            !.interval = BaseInterval(cfg)]
         IN  IF ~cfg.isActive
             THEN Arm(ch, f, PausedWait)
             ELSE IF LimitReached(cfg, tweetsToday, remainingQuota)
             THEN Arm(ch, f, CapWait)
             ELSE IF cfg.isNewsTweet
             THEN Await(ch, g, "fetch")
             ELSE Await(ch, g, "runPipeline")
    /\ UNCHANGED <<schedulerIsRunning, tweetsToday, remainingQuota, lastResetDate, today>>
    /\ UNCHANGED notScheduler

\* await this.fetcher.fetch(activeCategory, 5) returns or rejects (caught)
SchedFetchSettles(ch) ==
    /\ chain[ch].pc = "fetch"
    /\ \E outcome \in {"headlines", "empty", "rejects"} :
         IF outcome = "headlines"
         THEN Await(ch, chain[ch], "evaluateContentUrgency")
         ELSE Await(ch, chain[ch], "runPipeline")
    /\ UNCHANGED <<schedulerIsRunning, tweetsToday, remainingQuota, lastResetDate, today>>
    /\ UNCHANGED notScheduler

\* await ai.evaluateContentUrgency(headlines, activeCategory) returns
UrgencyReturns(ch) ==
    /\ chain[ch].pc = "evaluateContentUrgency"
    /\ \E suggested \in SuggestedIntervals :
         Await(ch, [chain[ch] EXCEPT !.interval = AdoptSuggestion(@, suggested)],
               "runPipeline")
    /\ UNCHANGED <<schedulerIsRunning, tweetsToday, remainingQuota, lastResetDate, today>>
    /\ UNCHANGED notScheduler

\* ... or rejects (caught): the sheet interval stays
UrgencyRejects(ch) ==
    /\ chain[ch].pc = "evaluateContentUrgency"
    /\ Await(ch, chain[ch], "runPipeline")
    /\ UNCHANGED <<schedulerIsRunning, tweetsToday, remainingQuota, lastResetDate, today>>
    /\ UNCHANGED notScheduler

\* StatsService.updateQuota(remaining) when the API answer carries a rate limit
\* header (<<remaining>>), nothing when it does not (<<>>)
UpdateQuota(quota, header) == IF header # <<>> THEN header[1] ELSE quota

\* StatsService.incrementTweets on remainingQuota
DecrementQuota(quota) == IF quota > 0 THEN quota - 1 ELSE quota

\* await this.runPipeline() returns: the pipeline has posted a tweet or not,
\* the posting adapter has updated the counters, and the next timer is armed
\* with the interval
SchedPipelineReturns(ch) ==
    /\ chain[ch].pc = "runPipeline"
    /\ \E posted \in BOOLEAN, header \in {<<>>} \cup {<<n>> : n \in 0..MaxQuota} :
         /\ posted => tweetsToday < MaxTweets
         /\ tweetsToday' = IF posted THEN tweetsToday + 1 ELSE tweetsToday
         /\ remainingQuota' = IF posted
                              THEN DecrementQuota(UpdateQuota(remainingQuota, header))
                              ELSE UpdateQuota(remainingQuota, header)
    /\ Arm(ch, [chain[ch] EXCEPT !.ran = TRUE], chain[ch].interval)
    /\ UNCHANGED <<schedulerIsRunning, lastResetDate, today>>
    /\ UNCHANGED notScheduler

\* runPipeline(): catch (error) { log.error(...) }, with the variant that lets
\* the error out of scheduleNext()
CatchRunErrorRethrow == "rethrow"

CatchRunError == "swallow"

\* await this.runPipeline(): this.pipeline.run() rejects inside runPipeline's
\* try block
SchedPipelineRejects(ch) ==
    /\ chain[ch].pc = "runPipeline"
    /\ IF CatchRunError = "swallow"
       THEN Arm(ch, [chain[ch] EXCEPT !.ran = TRUE], chain[ch].interval)
       ELSE /\ chain' = [chain EXCEPT ![ch] = NoChain]
            /\ UNCHANGED intervalId
    /\ UNCHANGED <<schedulerIsRunning, tweetsToday, remainingQuota, lastResetDate, today>>
    /\ UNCHANGED notScheduler

\* the calendar date changes; nothing in the running process reacts to it
Midnight ==
    /\ today < MaxDays
    /\ today' = today + 1
    /\ UNCHANGED <<schedulerIsRunning, intervalId, chain, tweetsToday, remainingQuota,
                   lastResetDate>>
    /\ UNCHANGED notScheduler

\* a continuation of a cycle in flight
SchedSettle(ch) ==
    \/ SchedConfigReturns(ch)
    \/ SchedFetchSettles(ch)
    \/ UrgencyReturns(ch)
    \/ UrgencyRejects(ch)
    \/ SchedPipelineReturns(ch)
    \/ SchedPipelineRejects(ch)

NextScheduler ==
    \/ Start
    \/ Stop
    \/ Midnight
    \/ \E ch \in Chains : TimerFires(ch) \/ SchedSettle(ch)

-----------------------------------------------------------------------------
(***************************************************************************)
(* NEWS AGGREGATOR: MERGE (FetcherAgent.mergeAndDeduplicate)               *)
(*                                                                         *)
(* A title is a sequence of one-character strings, so that normalisation   *)
(* is computed character by character as the regular expressions do.       *)
(***************************************************************************)

UpperCase == <<"A", "B", "C", "D", "E", "F", "G", "H", "I", "J", "K", "L", "M",
               "N", "O", "P", "Q", "R", "S", "T", "U", "V", "W", "X", "Y", "Z">>

LowerCase == <<"a", "b", "c", "d", "e", "f", "g", "h", "i", "j", "k", "l", "m",
               "n", "o", "p", "q", "r", "s", "t", "u", "v", "w", "x", "y", "z">>

Digits == {"0", "1", "2", "3", "4", "5", "6", "7", "8", "9"}

Whitespace == {" "}

Range(s) == {s[i] : i \in DOMAIN s}

\* String.prototype.toLowerCase
ToLowerCase(s) ==
    [i \in DOMAIN s |->
        IF s[i] \in Range(UpperCase)
        THEN LowerCase[CHOOSE k \in DOMAIN UpperCase : UpperCase[k] = s[i]]
        ELSE s[i]]

\* .replace(/[^a-z0-9\s]/g, '')
StripOthers(s) ==
    SelectSeq(s, LAMBDA c : c \in Range(LowerCase) \cup Digits \cup Whitespace)

\* .replace(/\ s+/g, ' ')
RECURSIVE CollapseWhitespace(_)
CollapseWhitespace(s) ==
    IF s = <<>> THEN <<>>
    ELSE IF Head(s) \in Whitespace
         THEN IF Len(s) > 1 /\ s[2] \in Whitespace
              THEN CollapseWhitespace(Tail(s))
              ELSE <<" ">> \o CollapseWhitespace(Tail(s))
         ELSE <<Head(s)>> \o CollapseWhitespace(Tail(s))

\* .trim()
RECURSIVE Trim(_)
Trim(s) ==
    IF s = <<>> THEN <<>>
    ELSE IF Head(s) \in Whitespace THEN Trim(Tail(s))
    ELSE IF s[Len(s)] \in Whitespace THEN Trim(SubSeq(s, 1, Len(s) - 1))
    ELSE s

\* Array/String.prototype.slice(0, n)
SliceTo(s, n) == SubSeq(s, 1, IF Len(s) < n THEN Len(s) ELSE n)

\* the length of the deduplication key
KeyLength == 50

\* a title has to be longer than this to be kept
MinTitleLength == 10

NormalizeTitle(title) ==
    SliceTo(Trim(CollapseWhitespace(StripOthers(ToLowerCase(title)))), KeyLength)

\* (mutant) no key is ever found in the seen set
SeenHasNever(seen, key) == FALSE

\* seen.has(key)
SeenHas(seen, key) == key \in seen

\* the loop of mergeAndDeduplicate from article i on
RECURSIVE MergeFrom(_, _, _, _)
MergeFrom(articles, i, seen, unique) ==
    IF i > Len(articles) THEN unique
    ELSE LET article == articles[i]
             key == NormalizeTitle(article.title)
         IN  IF /\ ~SeenHas(seen, key)
                /\ article.title # <<>>
                /\ Len(article.title) > MinTitleLength
             THEN MergeFrom(articles, i + 1, seen \cup {key}, Append(unique, article))
             ELSE MergeFrom(articles, i + 1, seen, unique)

MergeAndDeduplicate(articles) == MergeFrom(articles, 1, {}, <<>>)

\* ---- the titles the providers answer with ----

\* "Big News Now"
TitlePlain == <<"B", "i", "g", " ", "N", "e", "w", "s", " ", "N", "o", "w">>

\* "big  news, NOW!": TitlePlain in another case and punctuation
TitleVariant ==
    <<"b", "i", "g", " ", " ", "n", "e", "w", "s", ",", " ", "N", "O", "W", "!">>

\* "Big News": 8 characters
TitleShort == <<"B", "i", "g", " ", "N", "e", "w", "s">>

\* "big news!!": TitleShort in another case and punctuation, 10 characters
TitleShortVariant == <<"b", "i", "g", " ", "n", "e", "w", "s", "!", "!">>

\* "BIG NEWS!!!": the same again, 11 characters
TitleShortLonger == <<"B", "I", "G", " ", "N", "E", "W", "S", "!", "!", "!">>

\* 50 times "a", then a word of its own: two titles that differ after the
\* 50th character of their keys
TitleLongX == [i \in 1..KeyLength |-> "a"] \o <<" ", "x">>

TitleLongY == [i \in 1..KeyLength |-> "a"] \o <<" ", "y">>

Titles == {TitlePlain, TitleVariant, TitleShort, TitleShortVariant, TitleShortLonger,
           TitleLongX, TitleLongY}

TitledArticles == [title : Titles]

ListsUpTo(S, n) == UNION {[1..k -> S] : k \in 0..n}

MergeInit ==
    /\ mergeInput \in ListsUpTo(TitledArticles, MaxTitles)
    /\ merged = <<>>
    /\ remerged = <<>>
    /\ mergePc = "input"

\* const merged = this.mergeAndDeduplicate([...newsData, ...gNews])
Merge ==
    /\ mergePc = "input"
    /\ merged' = MergeAndDeduplicate(mergeInput)
    /\ mergePc' = "merged"
    /\ UNCHANGED <<mergeInput, remerged>>
    /\ UNCHANGED notMerge

\* the merged list is merged once more
Remerge ==
    /\ mergePc = "merged"
    /\ remerged' = MergeAndDeduplicate(merged)
    /\ mergePc' = "remerged"
    /\ UNCHANGED <<mergeInput, merged>>
    /\ UNCHANGED notMerge

NextMerge == Merge \/ Remerge

-----------------------------------------------------------------------------
(***************************************************************************)
(* NEWS AGGREGATOR: FETCH (FetcherAgent.fetch, the adapters'               *)
(* transformArticles)                                                      *)
(*                                                                         *)
(* A provider answers a list of raw articles, each with a title and a      *)
(* date string.  Times are minutes before Date.now(), which is taken to    *)
(* stand still during one fetch.                                           *)
(***************************************************************************)

Providers == {"NewsData", "GNews"}

\* the date strings of the raw answers: none, four parseable ones and one that
\* new Date() makes an Invalid Date of
DateStrings == {"", "30m", "3h", "23h", "25h", "garbage"}

FetchTitles == {TitlePlain, TitleShortLonger}

RawArticles == [title : FetchTitles, publishedAt : DateStrings]

\* new Date(string) for the parseable strings, as minutes before now
ParseDate(string) ==
    CASE string = "30m" -> 30
      [] string = "3h"  -> 180
      [] string = "23h" -> 1380
      [] string = "25h" -> 1500

\* new Date(article.publishedAt || Date.now()), as minutes before now
NewDate(string) == IF string = "" THEN 0 ELSE ParseDate(string)

\* pubDate.toISOString() throws a RangeError on an Invalid Date
ToISOStringThrows(string) == string = "garbage"

\* 24 * 60 * 60 * 1000 ms, in minutes
MaxAgeMinutes == 1440

\* 60 * 60 * 1000 ms, in minutes
FreshMinutes == 60

\* (mutant) every article passes
AfterCutoffAlways(age) == TRUE

\* article.publishedAt.getTime() > cutoff, cutoff = Date.now() - 24 h
AfterCutoff(age) == age < MaxAgeMinutes

\* the article the .map callback makes of a raw one
Mapped(raw) == [title |-> raw.title, publishedAt |-> NewDate(raw.publishedAt)]

MapThrows(raws) == \E i \in DOMAIN raws : ToISOStringThrows(raws[i].publishedAt)

\* transformArticles when the .map callback does not throw
TransformArticles(raws) ==
    SelectSeq([i \in DOMAIN raws |-> Mapped(raws[i])],
              LAMBDA a : AfterCutoff(a.publishedAt))

\* fetchNews: an error thrown by transformArticles is caught and [] returned
FetchNews(raws) == IF MapThrows(raws) THEN <<>> ELSE TransformArticles(raws)

IsVeryFresh(a) == a.publishedAt < FreshMinutes

\* (mutant) the comparator calls every two articles equal
CompareNothing(a, b) == 0

\* the comparator of sortByRecency
Compare(a, b) ==
    IF IsVeryFresh(a) /\ ~IsVeryFresh(b) THEN -1
    ELSE IF ~IsVeryFresh(a) /\ IsVeryFresh(b) THEN 1
    ELSE a.publishedAt - b.publishedAt

\* Array.prototype.sort is stable: an article goes behind every article the
\* comparator does not put it before
RECURSIVE InsertSorted(_, _)
InsertSorted(sorted, a) ==
    IF sorted = <<>> THEN <<a>>
    ELSE IF Compare(a, Head(sorted)) < 0 THEN <<a>> \o sorted
    ELSE <<Head(sorted)>> \o InsertSorted(Tail(sorted), a)

RECURSIVE SortFrom(_, _, _)
SortFrom(articles, i, sorted) ==
    IF i > Len(articles) THEN sorted
    ELSE SortFrom(articles, i + 1, InsertSorted(sorted, articles[i]))

SortByRecency(articles) == SortFrom(articles, 1, <<>>)

\* how generate comes to its answer to the search-query prompt: a provider
\* answers keywords, a provider answers a labelled and marked-up list, a
\* provider answers markup only, or every provider fails
QueryOutcomes == {"keywords", "list", "markup", "allFailed"}

\* the prompt of generateSearchQuery: its template holds none of the words
\* getSafeDefault looks for
SearchQueryPrompt == [op |-> "generateSearchQuery", text |-> {}]

\* 'Update coming soon...'
GenericDefaultText ==
    <<"U", "p", "d", "a", "t", "e", " ", "c", "o", "m", "i", "n", "g", " ",
      "s", "o", "o", "n", ".", ".", ".">>

\* 'rates today'
KeywordsText == <<"r", "a", "t", "e", "s", " ", "t", "o", "d", "a", "y">>

\* 'Keywords: 1. **rates** - "a b c d e"'
ListText ==
    <<"K", "e", "y", "w", "o", "r", "d", "s", ":", " ", "1", ".", " ", "*", "*",
      "r", "a", "t", "e", "s", "*", "*", " ", "-", " ", "\"", "a", " ", "b", " ",
      "c", " ", "d", " ", "e", "\"">>

\* '** **'
MarkupText == <<"*", "*", " ", "*", "*">>

\* what this.generate(prompt) returns to generateSearchQuery
GenerateResult(outcome) ==
    CASE outcome = "keywords" -> KeywordsText
      [] outcome = "list" -> ListText
      [] outcome = "markup" -> MarkupText
      [] OTHER ->
          IF GetSafeDefault(SearchQueryPrompt) = "genericDefault"
          THEN GenericDefaultText ELSE <<>>

\* .replace(/[*#]/g, '') and .replace(/['"]/g, '')
RemoveChars(s, chars) == SelectSeq(s, LAMBDA c : c \notin chars)

StartsWith(s, prefix) ==
    Len(s) >= Len(prefix) /\ SubSeq(s, 1, Len(prefix)) = prefix

RECURSIVE DropColonsAndSpaces(_)
DropColonsAndSpaces(s) ==
    IF s # <<>> /\ Head(s) \in Whitespace \cup {":"}
    THEN DropColonsAndSpaces(Tail(s)) ELSE s

\* the labels of /^(Keywords|Search|Query|Search Query)[:\ s]*/gi; 'Search Query'
\* never matches, 'Search' does first
QueryLabels ==
    {<<"k", "e", "y", "w", "o", "r", "d", "s">>, <<"s", "e", "a", "r", "c", "h">>,
     <<"q", "u", "e", "r", "y">>}

\* .replace(/^(label|label|...)[:\ s]*/gi, '')
RemoveLabel(s, labels) ==
    IF \E l \in labels : StartsWith(ToLowerCase(s), l)
    THEN LET l == CHOOSE l \in labels : StartsWith(ToLowerCase(s), l)
         IN  DropColonsAndSpaces(SubSeq(s, Len(l) + 1, Len(s)))
    ELSE s

\* the number of digits s starts with
RECURSIVE DigitRun(_)
DigitRun(s) ==
    IF s # <<>> /\ Head(s) \in Digits THEN 1 + DigitRun(Tail(s)) ELSE 0

\* .replace(/\d+\.|[-\u2022]/g, ''); "bullet" stands for the character U+2022
RECURSIVE RemoveListMarks(_)
RemoveListMarks(s) ==
    IF s = <<>> THEN <<>>
    ELSE IF Head(s) \in {"-", "bullet"} THEN RemoveListMarks(Tail(s))
    ELSE LET n == DigitRun(s) IN
         IF n = 0 THEN <<Head(s)>> \o RemoveListMarks(Tail(s))
         ELSE IF n < Len(s) /\ s[n + 1] = "."
              THEN RemoveListMarks(SubSeq(s, n + 2, Len(s)))
              ELSE SubSeq(s, 1, n) \o RemoveListMarks(SubSeq(s, n + 1, Len(s)))

\* the number of words kept of the answer
QueryWords == 5

\* .split(' ').slice(0, n).join(' '): the text up to its n-th space
RECURSIVE FirstWords(_, _)
FirstWords(s, n) ==
    IF s = <<>> THEN <<>>
    ELSE IF Head(s) = " "
         THEN IF n = 1 THEN <<>> ELSE <<" ">> \o FirstWords(Tail(s), n - 1)
         ELSE <<Head(s)>> \o FirstWords(Tail(s), n)

\* BeastModeAI.generateSearchQuery: the cleaning of the result
GenerateSearchQuery(result) ==
    FirstWords(
        Trim(CollapseWhitespace(
            RemoveListMarks(RemoveLabel(
                RemoveChars(RemoveChars(result, {"*", "#"}), {"'", "\""}),
                QueryLabels)))),
        QueryWords)

Limits == {1, 2}

\* what the providers answer to the query with the raw category
RetryAnswers ==
    {<<>>,
     <<[title |-> TitlePlain, publishedAt |-> "30m"]>>,
     <<[title |-> TitlePlain, publishedAt |-> "25h"]>>}

FetchInit ==
    /\ fetchPc = "generateSearchQuery"
    /\ limit \in Limits
    /\ optimizedQuery = FALSE
    /\ queryOutcome = "none"
    /\ searchQuery = <<>>
    /\ rawAnswers \in [Providers -> ListsUpTo(RawArticles, MaxArticles)]
    /\ Len(rawAnswers["NewsData"]) + Len(rawAnswers["GNews"]) <= MaxArticles
    /\ pending = {}
    /\ providerArticles = [p \in Providers |-> <<>>]
    /\ fetchMerged = <<>>
    /\ fetched = <<>>

\* optimizedQuery = await this.ai.generateSearchQuery(category), in try/catch;
\* customQuery and optimizedQuery are tested for truthiness, '' is falsy
QuerySettles ==
    /\ fetchPc = "generateSearchQuery"
    /\ \E outcome \in QueryOutcomes :
         /\ queryOutcome' = outcome
         /\ searchQuery' = GenerateSearchQuery(GenerateResult(outcome))
    /\ optimizedQuery' = (searchQuery' # <<>>)
    /\ fetchPc' = "fetchNews"
    /\ pending' = Providers
    /\ UNCHANGED <<limit, rawAnswers, providerArticles, fetchMerged, fetched>>
    /\ UNCHANGED notFetch

\* const merged = ...; const sorted = ...; return sorted
MergeSortSlice(arts) ==
    LET m == MergeAndDeduplicate(arts["NewsData"] \o arts["GNews"])
    IN  /\ fetchMerged' = m
        /\ fetched' = SliceTo(SortByRecency(m), limit)
        /\ fetchPc' = "returned"

\* the Promise.all of the (first or second) round resolves
AfterRound(arts) ==
    IF /\ fetchPc = "fetchNews"
       /\ Len(arts["NewsData"]) = 0
       /\ Len(arts["GNews"]) = 0
       /\ optimizedQuery
    THEN /\ fetchPc' = "retry"
         /\ pending' = Providers
         /\ UNCHANGED <<fetchMerged, fetched>>
    ELSE /\ MergeSortSlice(arts)
         /\ pending' = {}

\* one provider's fetchNews resolves; the last one resumes fetch
FetchNewsReturns(p) ==
    /\ fetchPc \in {"fetchNews", "retry"}
    /\ p \in pending
    /\ \E answer \in IF fetchPc = "retry" THEN RetryAnswers ELSE {rawAnswers[p]} :
         LET arts == [providerArticles EXCEPT ![p] = FetchNews(answer)]
         IN  /\ rawAnswers' = [rawAnswers EXCEPT ![p] = answer]
             /\ providerArticles' = arts
             /\ IF pending = {p}
                THEN AfterRound(arts)
                ELSE /\ pending' = pending \ {p}
                     /\ UNCHANGED <<fetchPc, fetchMerged, fetched>>
    /\ UNCHANGED <<limit, optimizedQuery, queryOutcome, searchQuery>>
    /\ UNCHANGED notFetch

NextFetch == QuerySettles \/ \E p \in Providers : FetchNewsReturns(p)

-----------------------------------------------------------------------------
(***************************************************************************)
(* ORIGINALITY AGENT (OriginalityAgent.ensureOriginal, isTooSimilar)       *)
(*                                                                         *)
(* Texts are sequences of one-character strings, as the titles of the      *)
(* merge are.                                                              *)
(***************************************************************************)

\* String.prototype.split(/\ s+/), from character i on
RECURSIVE SplitFrom(_, _, _, _)
SplitFrom(s, i, word, words) ==
    IF i > Len(s) THEN Append(words, word)
    ELSE IF s[i] \in Whitespace
         THEN IF i > 1 /\ s[i - 1] \in Whitespace
              THEN SplitFrom(s, i + 1, word, words)
              ELSE SplitFrom(s, i + 1, <<>>, Append(words, word))
         ELSE SplitFrom(s, i + 1, Append(word, s[i]), words)

Split(s) == SplitFrom(s, 1, <<>>, <<>>)

\* Array.prototype.join(' ')
RECURSIVE Join(_)
Join(words) ==
    IF words = <<>> THEN <<>>
    ELSE IF Len(words) = 1 THEN words[1]
    ELSE words[1] \o <<" ">> \o Join(Tail(words))

\* String.prototype.includes
IncludesText(text, part) ==
    \E k \in 0..(Len(text) - Len(part)) : SubSeq(text, k + 1, k + Len(part)) = part

IgnoreTerms ==
    {<<"b", "a", "l", "l", "o", "n">>,
     <<"d", "'", "o", "r">>,
     <<"i", "n", "d", "i", "a">>,
     <<"w", "o", "r", "l", "d">>,
     <<"c", "u", "p">>,
     <<"p", "r", "e", "m", "i", "e", "r">>,
     <<"l", "e", "a", "g", "u", "e">>,
     <<"c", "r", "i", "c", "k", "e", "t">>,
     <<"f", "o", "o", "t", "b", "a", "l", "l">>,
     <<"a", "w", "a", "r", "d">>,
     <<"b", "r", "a", "v", "e", "r", "y">>,
     <<"o", "l", "y", "m", "p", "i", "c", "s">>,
     <<"t", "e", "s", "t">>,
     <<"m", "a", "t", "c", "h">>,
     <<"f", "i", "n", "a", "l">>,
     <<"c", "h", "a", "m", "p", "i", "o", "n", "s">>,
     <<"t", "r", "o", "p", "h", "y">>,
     <<"m", "e", "d", "a", "l">>}

\* the words of a title that make up its phrases
PhraseWordLength == 2

\* the number of words of a phrase
PhraseLength == 5

\* the words that count in the overlap test
SignificantLength == 3

\* a title needs more significant words than this for the overlap test
OverlapMinWords == 5

\* (mutant) no phrase is ever found in the text
PhraseMatchNever(textLower, originalWords) == FALSE

\* the loop over the 5-word phrases of one title
PhraseMatch(textLower, originalWords) ==
    \E i \in 0..(Len(originalWords) - PhraseLength) :
        IncludesText(textLower, Join(SubSeq(originalWords, i + 1, i + PhraseLength)))

IsSignificant(w) == Len(w) > SignificantLength /\ w \notin IgnoreTerms

\* the word overlap test against one title
HighOverlap(textLower, originalWords) ==
    LET textWords == SelectSeq(Split(textLower), IsSignificant)
        origFiltered == SelectSeq(originalWords, IsSignificant)
        matchCount == Cardinality({k \in DOMAIN origFiltered :
                                      \E j \in DOMAIN textWords :
                                          textWords[j] = origFiltered[k]})
    IN  /\ Len(origFiltered) > OverlapMinWords
        /\ 2 * matchCount > Len(origFiltered)

IsTooSimilar(text, originals) ==
    LET textLower == ToLowerCase(text)
    IN  \E n \in DOMAIN originals :
           LET originalWords ==
                   SelectSeq(Split(ToLowerCase(originals[n])),
                             LAMBDA w : Len(w) > PhraseWordLength)
           IN  \/ PhraseMatch(textLower, originalWords)
               \/ HighOverlap(textLower, originalWords)

Quotes == {"\"", "'"}

\* .replace(/^["']|["']$/g, '')
StripQuotes(s) ==
    LET a == IF s # <<>> /\ Head(s) \in Quotes THEN Tail(s) ELSE s
    IN  IF a # <<>> /\ a[Len(a)] \in Quotes THEN SubSeq(a, 1, Len(a) - 1) ELSE a

PrefixWords ==
    {<<"y", "o", "u", "r">>,
     <<"r", "e", "w", "r", "i", "t", "e">>,
     <<"o", "r", "i", "g", "i", "n", "a", "l">>}

\* .replace(/^(Your|Rewrite|Original)[^:]*:/i, '')
StripPrefix(s) ==
    IF /\ \E p \in PrefixWords : StartsWith(ToLowerCase(s), p)
       /\ \E k \in DOMAIN s : s[k] = ":"
    THEN LET colon == CHOOSE k \in DOMAIN s :
                         s[k] = ":" /\ \A j \in 1..(k - 1) : s[j] # ":"
         IN  SubSeq(s, colon + 1, Len(s))
    ELSE s

Clean(rewritten) == Trim(StripPrefix(StripQuotes(rewritten)))

IsCapitalized(w) ==
    /\ Len(w) > 1
    /\ w[1] \in Range(UpperCase)
    /\ \A k \in 2..Len(w) : w[k] \in Range(LowerCase)

IsNumber(w) == w # <<>> /\ \A k \in DOMAIN w : w[k] \in Digits

\* titles[0]?.match(/\ b[A-Z][a-z]+\b|\d+/g)[0] || 'Update', on the words
\* between the spaces of the title
MainWord(titles) ==
    LET words == IF titles = <<>> THEN <<>> ELSE Split(titles[1])
        keywords == SelectSeq(words, LAMBDA w : IsCapitalized(w) \/ IsNumber(w))
    IN  IF keywords = <<>> THEN <<"U", "p", "d", "a", "t", "e">>
        ELSE keywords[1]

\* " Breaking: "
BreakingPrefix ==
    <<" ", "B", "r", "e", "a", "k", "i", "n", "g", ":", " ">>

\* " making headlines today!"
BreakingSuffix ==
    <<" ", "m", "a", "k", "i", "n", "g", " ", "h", "e", "a", "d", "l", "i",
      "n", "e", "s", " ", "t", "o", "d", "a", "y", "!">>

\* " News Update: Big "
UpdatePrefix ==
    <<" ", "N", "e", "w", "s", " ", "U", "p", "d", "a", "t", "e", ":", " ",
      "B", "i", "g", " ">>

\* " developments"
UpdateSuffix ==
    <<" ", "d", "e", "v", "e", "l", "o", "p", "m", "e", "n", "t", "s">>

\* " Just in: "
JustInPrefix ==
    <<" ", "J", "u", "s", "t", " ", "i", "n", ":", " ">>

\* " story trending now"
JustInSuffix ==
    <<" ", "s", "t", "o", "r", "y", " ", "t", "r", "e", "n", "d", "i", "n",
      "g", " ", "n", "o", "w">>

\* the three templates, each emoji one element
Templates(mainWord) ==
    {<<"[newspaper]">> \o BreakingPrefix \o mainWord \o BreakingSuffix,
     <<"[zap]">> \o UpdatePrefix \o mainWord \o UpdateSuffix,
     <<"[fire]">> \o JustInPrefix \o mainWord \o JustInSuffix}

FallbackLength == 80

\* generateSafeFallback: Math.random() picks the template
SafeFallbacks(titles) == {SliceTo(t, FallbackLength) : t \in Templates(MainWord(titles))}

\* ---- the inputs ----

\* "Fed set to cut key rate today"
TitleWithShortWord ==
    <<"F", "e", "d", " ", "s", "e", "t", " ", "t", "o", " ", "c", "u", "t",
          " ", "k", "e", "y", " ", "r", "a", "t", "e", " ", "t", "o", "d",
          "a", "y">>

\* "Fed may cut key rate today"
TitleOfLongWords ==
    <<"F", "e", "d", " ", "m", "a", "y", " ", "c", "u", "t", " ", "k", "e",
          "y", " ", "r", "a", "t", "e", " ", "t", "o", "d", "a", "y">>

\* "Central bank lowers interest rates amid growth fears today"
TitleOfManyWords ==
    <<"C", "e", "n", "t", "r", "a", "l", " ", "b", "a", "n", "k", " ", "l",
          "o", "w", "e", "r", "s", " ", "i", "n", "t", "e", "r", "e", "s",
          "t", " ", "r", "a", "t", "e", "s", " ", "a", "m", "i", "d", " ",
          "g", "r", "o", "w", "t", "h", " ", "f", "e", "a", "r", "s", " ",
          "t", "o", "d", "a", "y">>

SourceTitles ==
    {<<TitleWithShortWord>>, <<TitleOfLongWords>>, <<TitleOfManyWords, TitleOfLongWords>>}

\* "Rates drop soon"
RewriteFresh ==
    <<"R", "a", "t", "e", "s", " ", "d", "r", "o", "p", " ", "s", "o", "o",
          "n">>

\* "\"Fed may cut key rate today\""
RewriteQuoted ==
    <<"\"", "F", "e", "d", " ", "m", "a", "y", " ", "c", "u", "t", " ", "k",
          "e", "y", " ", "r", "a", "t", "e", " ", "t", "o", "d", "a", "y",
          "\"">>

\* "Rewrite: bank lowers rates amid central growth fears"
RewriteOverlap ==
    <<"R", "e", "w", "r", "i", "t", "e", ":", " ", "b", "a", "n", "k", " ",
          "l", "o", "w", "e", "r", "s", " ", "r", "a", "t", "e", "s", " ",
          "a", "m", "i", "d", " ", "c", "e", "n", "t", "r", "a", "l", " ",
          "g", "r", "o", "w", "t", "h", " ", "f", "e", "a", "r", "s">>

\* "Rates amid fears"
RewriteShort ==
    <<"R", "a", "t", "e", "s", " ", "a", "m", "i", "d", " ", "f", "e", "a",
          "r", "s">>

\* what this.ai.rewriteOriginal resolves with: the first title as it is, or one
\* of four texts
Rewrites(titles) == {titles[1], RewriteFresh, RewriteQuoted, RewriteOverlap, RewriteShort}

Summaries == {RewriteFresh, TitleOfLongWords}

NoOriginalResult ==
    [finalSummary |-> <<>>, isOriginal |-> FALSE, attempts |-> 0, fallback |-> FALSE]

\* (mutant) the summary is tested first and returned as it is when it passes
EntryTested(text, originals) ==
    IF IsTooSimilar(text, originals) THEN "rewriteOriginal" ELSE "returned"

\* ensureOriginal up to its first await: the loop starts with the
\* rewriteOriginal call, the summary is not tested
Entry(text, originals) == "rewriteOriginal"

\* the state at the first await of ensureOriginal(summary, originalTitles,
\* maxAttempts)
OriginalityInit ==
    /\ originalTitles \in SourceTitles
    /\ maxAttempts \in 1..MaxAttempts
    /\ attempt = 1
    /\ summary \in Summaries
    /\ inputSummary = summary
    /\ ensurePc = Entry(summary, originalTitles)
    /\ rewriteCalls = IF ensurePc = "rewriteOriginal" THEN 1 ELSE 0
    /\ originalResult =
         IF ensurePc = "rewriteOriginal" THEN NoOriginalResult
         ELSE [finalSummary |-> summary, isOriginal |-> TRUE, attempts |-> 0,
               fallback |-> FALSE]

\* attempt++ and the loop test: the next rewriteOriginal call or the fallback
NextAttempt(nextSummary) ==
    /\ summary' = nextSummary
    /\ attempt' = attempt + 1
    /\ IF attempt + 1 <= maxAttempts
       THEN /\ rewriteCalls' = rewriteCalls + 1
            /\ UNCHANGED <<ensurePc, originalResult>>
       ELSE /\ ensurePc' = "returned"
            /\ \E text \in SafeFallbacks(originalTitles) :
                 originalResult' = [finalSummary |-> text, isOriginal |-> TRUE,
                                    attempts |-> maxAttempts, fallback |-> TRUE]
            /\ UNCHANGED rewriteCalls

\* await this.ai.rewriteOriginal(...) resolves
RewriteReturns ==
    /\ ensurePc = "rewriteOriginal"
    /\ \E rewritten \in Rewrites(originalTitles) :
         LET cleaned == Clean(rewritten)
         IN  IF ~IsTooSimilar(cleaned, originalTitles)
             THEN /\ ensurePc' = "returned"
                  /\ originalResult' = [finalSummary |-> cleaned, isOriginal |-> TRUE,
                                        attempts |-> attempt, fallback |-> FALSE]
                  /\ UNCHANGED <<attempt, summary, rewriteCalls>>
             ELSE NextAttempt(cleaned)
    /\ UNCHANGED <<originalTitles, maxAttempts, inputSummary>>
    /\ UNCHANGED notOriginality

\* await this.ai.rewriteOriginal(...) rejects: caught and logged
RewriteThrows ==
    /\ ensurePc = "rewriteOriginal"
    /\ NextAttempt(summary)
    /\ UNCHANGED <<originalTitles, maxAttempts, inputSummary>>
    /\ UNCHANGED notOriginality

NextOriginality == RewriteReturns \/ RewriteThrows

-----------------------------------------------------------------------------
(***************************************************************************)
(* DRY RUN (Pipeline.dryRun)                                               *)
(*                                                                         *)
(* dryRun neither reads nor sets this.isRunning and has no try/catch.  The *)
(* posting adapter is the only writer of the post statistics: every        *)
(* posting operation that is invoked counts one post.                      *)
(***************************************************************************)

\* the operations of TwitterService that post
PostingOps == {"postTweet", "postTweetWithImage", "postThread", "postMegaTweet"}

\* (mutant) every step of the dry run also posts what it has
DryCallsAndPosts(op) == {op, "postTweet"}

\* the adapter operations invoked by a step of dryRun: the one it awaits
DryCalls(op) == {op}

\* StatsService.incrementTweets, once per posting operation invoked
SentAfter(ops, sent) == sent + Cardinality(ops \cap PostingOps)

QuotaAfter(ops, quota) == IF ops \cap PostingOps # {} THEN DecrementQuota(quota) ELSE quota

DryRunInit ==
    /\ dryPc = "getConfig"
    /\ dryConfig = NoConfig
    /\ dryCatIndex = 0
    /\ dryCalled = {}
    /\ drySummaries = 0

\* the await at dryPc resolves; the dry run goes on to pc with the config cfg,
\* at category index and with size entries in summaries
DryStep(pc, cfg, index, size) ==
    LET ops == DryCalls(dryPc)
    IN  /\ dryPc' = pc
        /\ dryConfig' = cfg
        /\ dryCatIndex' = index
        /\ drySummaries' = size
        /\ dryCalled' = dryCalled \cup ops
        /\ tweetsToday' = SentAfter(ops, tweetsToday)
        /\ remainingQuota' = QuotaAfter(ops, remainingQuota)
        /\ UNCHANGED <<schedulerIsRunning, intervalId, chain, lastResetDate, today>>
        /\ UNCHANGED notDryRun

\* await getSheetConfig().getConfig()
DryConfigReturns ==
    /\ dryPc = "getConfig"
    /\ \E cfg \in SheetConfigs :
         IF ~cfg.isNewsTweet /\ cfg.customTopic
         THEN DryStep("moderateContent", cfg, 0, 0)
         ELSE DryStep("fetch", cfg, 0, 0)

\* await this.ai.moderateContent(customTopic)
DryModerateReturns ==
    /\ dryPc = "moderateContent"
    /\ \E moderation \in [isSafe : BOOLEAN] :
         IF ~moderation.isSafe
         THEN DryStep("returned", dryConfig, dryCatIndex, 1)
         ELSE DryStep("generateCustomTopicTweet", dryConfig, dryCatIndex, 0)

\* await this.ai.generateCustomTopicTweet(customTopic, 200)
DryCustomTweetReturns ==
    /\ dryPc = "generateCustomTopicTweet"
    /\ DryStep("returned", dryConfig, dryCatIndex, 1)

\* the for loop over categories moves on, summaries.set(category, ...) done
DryNextCategory ==
    IF dryCatIndex + 1 < Categories(dryConfig)
    THEN DryStep("fetch", dryConfig, dryCatIndex + 1, drySummaries + 1)
    ELSE DryStep("returned", dryConfig, dryCatIndex + 1, drySummaries + 1)

\* await this.fetcher.fetch(category, 3)
DryFetchReturns ==
    /\ dryPc = "fetch"
    /\ \E found \in BOOLEAN :
         IF ~found
         THEN DryNextCategory
         ELSE DryStep("summarize", dryConfig, dryCatIndex, drySummaries)

\* await this.summarizer.summarize(articles)
DrySummarizeReturns ==
    /\ dryPc = "summarize"
    /\ DryStep("ensureOriginal", dryConfig, dryCatIndex, drySummaries)

\* await this.originalityAgent.ensureOriginal(summary.oneLiner, originalTitles, 1)
DryEnsureOriginalReturns ==
    /\ dryPc = "ensureOriginal"
    /\ DryNextCategory

\* an awaited call rejects: dryRun has no try/catch and rejects with it
DryAwaitRejects ==
    /\ dryPc \notin {"returned", "threw"}
    /\ DryStep("threw", dryConfig, dryCatIndex, drySummaries)

NextDryRun ==
    \/ DryConfigReturns
    \/ DryModerateReturns
    \/ DryCustomTweetReturns
    \/ DryFetchReturns
    \/ DrySummarizeReturns
    \/ DryEnsureOriginalReturns
    \/ DryAwaitRejects

-----------------------------------------------------------------------------
(***************************************************************************)
(* REMOTE CONFIG (GoogleSheetsConfig.getConfig, the singleton of           *)
(* sheets.service.ts)                                                      *)
(*                                                                         *)
(* The published sheet is a list of key,value lines; a document is what it *)
(* holds for three of the keys ("" when the line is missing or empty).     *)
(* getConfig calls are made one after the other; clearCache is never       *)
(* called in the program.                                                  *)
(***************************************************************************)

Documents ==
    [isActive : {"", "true", "false", "FALSE"}, tweetInterval : {"", "30"},
     maxDailyTweets : {"", "0", "5"}]

\* String.prototype.toLowerCase on the values of the isActive line
ToLowerString(s) == IF s = "FALSE" THEN "false" ELSE s

\* parseInt(value, 10) on the values of the number lines
ParseInt(s) ==
    CASE s = "0" -> 0 [] s = "5" -> 5 [] s = "17" -> 17 [] s = "30" -> 30 [] s = "85" -> 85

\* parseCSV: the line is left out of the map when its value is empty
ParseCSV(doc) ==
    [isActive |-> ToLowerString(doc.isActive) # "false",
     tweetInterval |-> ParseInt(IF doc.tweetInterval # "" THEN doc.tweetInterval ELSE "85"),
     maxDailyTweets |->
         ParseInt(IF doc.maxDailyTweets # "" THEN doc.maxDailyTweets ELSE "17")]

\* DEFAULT_CONFIG
DefaultConfig ==
    [isActive |-> TRUE, tweetInterval |-> DefaultInterval,
     maxDailyTweets |-> DefaultMaxDaily]

\* this.cachedConfig = null
NoCachedConfig == [isActive |-> FALSE, tweetInterval |-> 0, maxDailyTweets |-> 0]

NoDocument == [isActive |-> "none", tweetInterval |-> "none", maxDailyTweets |-> "none"]

\* what a getConfig call gave its caller, with what became of its fetch
ConfigResult(kind, config, outcome, doc) ==
    [kind |-> kind, config |-> config, outcome |-> outcome, document |-> doc]

NoConfigResult == ConfigResult("none", NoCachedConfig, "none", NoDocument)

SheetsInit ==
    /\ sheetUrl \in BOOLEAN
    /\ cachedConfig = NoCachedConfig
    /\ lastFetch = 0
    /\ configPc = "idle"
    /\ configCalls = 0
    /\ fetchesIssued = 0
    /\ configResult = NoConfigResult
    /\ lastGood = NoCachedConfig

\* getConfig(), up to the axios.get call
GetConfig ==
    /\ configPc = "idle"
    /\ configCalls < MaxConfigCalls
    /\ configCalls' = configCalls + 1
    /\ IF ~sheetUrl
       THEN /\ configResult' = ConfigResult("returned", DefaultConfig, "none", NoDocument)
            /\ UNCHANGED <<configPc, fetchesIssued>>
       ELSE /\ configPc' = "axios.get"
            /\ fetchesIssued' = fetchesIssued + 1
            /\ configResult' = NoConfigResult
    /\ UNCHANGED <<sheetUrl, cachedConfig, lastFetch, lastGood>>
    /\ UNCHANGED notSheets

\* await axios.get(this.sheetUrl) resolves with the CSV text of the sheet
AxiosGetReturns ==
    /\ configPc = "axios.get"
    /\ \E doc \in Documents :
         LET config == ParseCSV(doc)
         IN  /\ cachedConfig' = config
             /\ lastGood' = config
             /\ configResult' = ConfigResult("returned", config, "fetched", doc)
    /\ lastFetch' = configCalls
    /\ configPc' = "idle"
    /\ UNCHANGED <<sheetUrl, configCalls, fetchesIssued>>
    /\ UNCHANGED notSheets

\* (mutant) the error is thrown on to the caller
CatchConfigErrorRethrow == "rethrow"

\* catch (error) { log.error(...); return this.cachedConfig || DEFAULT_CONFIG }
CatchConfigError == "swallow"

\* the try block throws: axios.get rejects (unreachable, timeout, HTTP error)
\* or the answer is no text and parseCSV throws
AxiosGetFails ==
    /\ configPc = "axios.get"
    /\ \E outcome \in {"unreachable", "unparsable"} :
         configResult' =
            IF CatchConfigError = "swallow"
            THEN ConfigResult("returned",
                              IF cachedConfig # NoCachedConfig THEN cachedConfig
                              ELSE DefaultConfig,
                              outcome, NoDocument)
            ELSE ConfigResult("threw", NoCachedConfig, outcome, NoDocument)
    /\ configPc' = "idle"
    /\ UNCHANGED <<sheetUrl, cachedConfig, lastFetch, configCalls, fetchesIssued, lastGood>>
    /\ UNCHANGED notSheets

NextSheets == GetConfig \/ AxiosGetReturns \/ AxiosGetFails

-----------------------------------------------------------------------------
(***************************************************************************)
(* POSTING ADAPTER: THREADS (TwitterService.postThread)                    *)
(*                                                                         *)
(* The items of the thread are numbered from 1; the id the API gives the   *)
(* tweet of an item is the number of the item, and 0 stands for undefined. *)
(***************************************************************************)

\* const maxRetries = 3
ThreadMaxRetries == 3

ThreadResult(kind, success, ids) == [kind |-> kind, success |-> success, tweetIds |-> ids]

NoThreadResult == ThreadResult("none", FALSE, <<>>)

ThreadInit ==
    /\ threadPc = "tweet"
    /\ threadLen \in 1..MaxThread
    /\ threadIndex = 0
    /\ threadRetries = 0
    /\ lastTweetId = 0
    /\ threadIds = <<>>
    /\ threadLog = <<>>
    /\ threadFailed = {}
    /\ threadResult = NoThreadResult

\* return {success, tweetIds} of postThread
ThreadReturn(success, ids) ==
    /\ threadPc' = "returned"
    /\ threadResult' = ThreadResult("returned", success, ids)

\* i++ and the test of the for loop: the next item, or the return after it
ThreadNextItem(ids) ==
    /\ threadIndex' = threadIndex + 1
    /\ IF threadIndex + 1 < threadLen
       THEN /\ threadPc' = "tweet"
            /\ threadRetries' = 0
            /\ UNCHANGED threadResult
       ELSE /\ ThreadReturn(TRUE, ids)
            /\ UNCHANGED threadRetries

\* await this.client.v2.tweet(tweetText[, reply]) resolves
TweetReturns ==
    /\ threadPc = "tweet"
    /\ lastTweetId' = threadIndex + 1
    /\ threadIds' = Append(threadIds, threadIndex + 1)
    /\ threadLog' = Append(threadLog, [item |-> threadIndex + 1, replyTo |-> lastTweetId])
    /\ IF threadIndex < threadLen - 1
       THEN /\ threadPc' = "cooldown"
            /\ UNCHANGED <<threadIndex, threadRetries, threadResult>>
       ELSE ThreadNextItem(Append(threadIds, threadIndex + 1))
    /\ UNCHANGED <<threadLen, threadFailed>>
    /\ UNCHANGED notThread

\* await this.delay(THREAD_COOLDOWN) resolves
CooldownReturns ==
    /\ threadPc = "cooldown"
    /\ ThreadNextItem(threadIds)
    /\ UNCHANGED <<threadLen, lastTweetId, threadIds, threadLog, threadFailed>>
    /\ UNCHANGED notThread

\* the tweet call rejects with code 403 or 429: retries++, wait
TweetRateLimited ==
    /\ threadPc = "tweet"
    /\ threadRetries' = threadRetries + 1
    /\ threadPc' = "retryDelay"
    /\ UNCHANGED <<threadLen, threadIndex, lastTweetId, threadIds, threadLog, threadFailed,
                   threadResult>>
    /\ UNCHANGED notThread

\* await this.delay(waitTime) resolves: while (!posted && retries < maxRetries)
RetryDelayReturns ==
    /\ threadPc = "retryDelay"
    /\ IF threadRetries < ThreadMaxRetries
       THEN /\ threadPc' = "tweet"
            /\ UNCHANGED <<threadIndex, threadRetries, threadResult, threadFailed>>
       ELSE /\ threadFailed' = threadFailed \cup {threadIndex + 1}
            /\ ThreadNextItem(threadIds)
    /\ UNCHANGED <<threadLen, lastTweetId, threadIds, threadLog>>
    /\ UNCHANGED notThread

\* the tweet call rejects with another error: partial success, or the error
\* is thrown to the outer catch
TweetFails ==
    /\ threadPc = "tweet"
    /\ threadRetries' = threadRetries + 1
    /\ threadFailed' = threadFailed \cup {threadIndex + 1}
    /\ IF Len(threadIds) > 0
       THEN ThreadReturn(TRUE, threadIds)
       ELSE ThreadReturn(Len(threadIds) > 0, threadIds)
    /\ UNCHANGED <<threadLen, threadIndex, lastTweetId, threadIds, threadLog>>
    /\ UNCHANGED notThread

NextThread ==
    TweetReturns \/ CooldownReturns \/ TweetRateLimited \/ RetryDelayReturns \/ TweetFails

-----------------------------------------------------------------------------
(***************************************************************************)
(* QUALITY LOOP (Pipeline.run, one category): evaluate, remember, repeat   *)
(*                                                                         *)
(* A summary text is written as the number of times it was refined: 0 is   *)
(* the text the summarizer returned.                                       *)
(***************************************************************************)

\* 'Rate summary(0 - 10)': the scale the AI is asked to score on
MaxScore == 10

\* the threshold of passed
PassThreshold == 7

\* What generate can give evaluate back: text without a {...} stretch, a
\* {...} stretch that is not JSON, or a JSON object with or without a score
\* field and with a feedback text ("" also stands for no feedback field).
EvalResponses ==
    {[kind |-> "noBraces"], [kind |-> "badJson"]}
    \cup {r \in [kind : {"json"}, hasScore : BOOLEAN, score : 0..MaxScore,
                 feedback : {"", "fb"}] : ~r.hasScore => r.score = 0}

\* result.score || 7: a missing score and the score 0 are falsy
ScoreOr(response, dflt) ==
    IF ~response.hasScore \/ response.score = 0 THEN dflt ELSE response.score

\* (result.score || 7) >= 7
AtLeast(score, threshold) == score >= threshold

\* BeastModeAI.evaluate, from the response of generate
AIEvaluate(response) ==
    IF response.kind = "json"
    THEN [passed |-> AtLeast(ScoreOr(response, PassThreshold), PassThreshold),
          score |-> ScoreOr(response, PassThreshold),
          feedback |-> response.feedback]
    ELSE [passed |-> TRUE, score |-> PassThreshold, feedback |-> ""]

\* EvaluatorAgent.evaluate: the gateway's verdict, handed on
EvaluatorEvaluate(response) ==
    LET result == AIEvaluate(response)
    IN  [passed |-> result.passed, score |-> result.score, feedback |-> result.feedback]

NoEvaluation == [passed |-> FALSE, score |-> 0, feedback |-> "none"]
NoResponse == [kind |-> "none"]
NoText == MaxReflexionIterations + 1

\* MemoryManager.store: this.memories.unshift(newMemory)
MemoryStore(list, m) == <<m>> \o list

\* the state after summarizer.summarize returned, the loop about to start
QualityInit ==
    /\ qualityPc = "evaluate"
    /\ qSummary = 0
    /\ qIteration = 0
    /\ qResponse = NoResponse
    /\ qEvaluation = NoEvaluation
    /\ evaluated = <<>>
    /\ memories = <<>>
    /\ refineCalls = 0
    /\ passedOn = NoText

\* the loop is left: originalityAgent.ensureOriginal(summary.oneLiner, ...)
CallEnsureOriginal ==
    /\ qualityPc' = "ensureOriginal"
    /\ passedOn' = qSummary

\* await this.evaluator.evaluate(summary) resolves: the rest of the iteration
QualityEvaluateReturns ==
    /\ qualityPc = "evaluate"
    /\ \E response \in EvalResponses :
        LET evaluation == EvaluatorEvaluate(response) IN
        /\ qResponse' = response
        /\ qEvaluation' = evaluation
        /\ evaluated' = Append(evaluated, qSummary)
        /\ IF evaluation.passed
             THEN \* break
                  /\ CallEnsureOriginal
                  /\ UNCHANGED <<memories, qIteration>>
             ELSE /\ memories' = MemoryStore(memories, [originalSummary |-> qSummary,
                                                        feedback |-> evaluation.feedback])
                  /\ qIteration' = qIteration + 1
                  /\ IF qIteration + 1 < MaxReflexionIterations
                       THEN UNCHANGED <<qualityPc, passedOn>>
                       ELSE CallEnsureOriginal
    /\ UNCHANGED <<qSummary, refineCalls>>
    /\ UNCHANGED notQuality

NextQuality == QualityEvaluateReturns

-----------------------------------------------------------------------------
(***************************************************************************)
(* VIRALITY STAGE (ViralityAgent.ensureViral and its use in Pipeline.run)  *)
(***************************************************************************)

\* ensureViral(megaTweet.tweets[0], 1)
ViralIterations == 1

\* (result.score || 7) >= 7
ViralThreshold == 7

\* viralResult.viralityScore >= 6
EnhancedThreshold == 6

\* What generate can give checkVirality back (see EvalResponses).
ViralResponses ==
    {[kind |-> "noBraces"], [kind |-> "badJson"]}
    \cup {r \in [kind : {"json"}, hasScore : BOOLEAN, score : 0..MaxScore,
                 suggestions : {<<>>, <<"tip">>}] : ~r.hasScore => r.score = 0}

\* BeastModeAI.checkVirality, from the response of generate, handed on by
\* ViralityAgent.checkVirality
CheckVirality(response) ==
    IF response.kind = "json"
    THEN [score |-> ScoreOr(response, ViralThreshold),
          isViral |-> ScoreOr(response, ViralThreshold) >= ViralThreshold,
          suggestions |-> response.suggestions]
    ELSE [score |-> ViralThreshold, isViral |-> TRUE, suggestions |-> <<>>]

NoViralResult == [finalTweet |-> "none", viralityScore |-> 0, wasEnhanced |-> FALSE]

\* the state at the first await of ensureViral(tweets[0], 1)
ViralInit ==
    /\ viralPc = "checkVirality"
    /\ currentTweet = "composed"
    /\ wasEnhanced = FALSE
    /\ viralIteration = 0
    /\ scored = <<>>
    /\ viralResult = NoViralResult
    /\ usedTweet = "none"

\* ensureViral returns, and run() picks megaTweet.tweets[0]
ViralReturn(result) ==
    /\ viralPc' = "done"
    /\ viralResult' = result
    /\ usedTweet' = IF result.wasEnhanced /\ result.viralityScore >= EnhancedThreshold
                    THEN result.finalTweet
                    ELSE "composed"

\* await this.checkVirality(currentTweet) resolves, inside the loop
CheckViralityReturns ==
    /\ viralPc = "checkVirality"
    /\ \E response \in ViralResponses :
        LET check == CheckVirality(response) IN
        /\ scored' = Append(scored, [text |-> currentTweet, response |-> response])
        /\ IF check.isViral
             THEN ViralReturn([finalTweet |-> currentTweet, viralityScore |-> check.score,
                               wasEnhanced |-> wasEnhanced])
             ELSE /\ viralPc' = "enhance"
                  /\ UNCHANGED <<viralResult, usedTweet>>
    /\ UNCHANGED <<currentTweet, wasEnhanced, viralIteration>>
    /\ UNCHANGED notViral

\* await this.enhance(currentTweet, ...) resolves
EnhanceReturns ==
    /\ viralPc = "enhance"
    /\ currentTweet' = "enhanced"
    /\ wasEnhanced' = TRUE
    /\ viralIteration' = viralIteration + 1
    /\ viralPc' = IF viralIteration + 1 < ViralIterations THEN "checkVirality"
                  ELSE "finalCheck"
    /\ UNCHANGED <<scored, viralResult, usedTweet>>
    /\ UNCHANGED notViral

\* await this.checkVirality(currentTweet) resolves, after the loop
FinalCheckReturns ==
    /\ viralPc = "finalCheck"
    /\ \E response \in ViralResponses :
        /\ scored' = Append(scored, [text |-> currentTweet, response |-> response])
        /\ ViralReturn([finalTweet |-> currentTweet,
                        viralityScore |-> CheckVirality(response).score,
                        wasEnhanced |-> wasEnhanced])
    /\ UNCHANGED <<currentTweet, wasEnhanced, viralIteration>>
    /\ UNCHANGED notViral

NextViral == CheckViralityReturns \/ EnhanceReturns \/ FinalCheckReturns

-----------------------------------------------------------------------------
(***************************************************************************)
(* SUMMARIZER AGENT (SummarizerAgent.summarize over BeastModeAI.summarize) *)
(***************************************************************************)

\* 'Breaking news update - check back soon! ' and the newspaper emoji
\* (U+1F4F0), for which "[newspaper]" stands
SummaryDefaultText ==
    <<"B", "r", "e", "a", "k", "i", "n", "g", " ", "n", "e", "w", "s", " ",
      "u", "p", "d", "a", "t", "e", " ", "-", " ", "c", "h", "e", "c", "k",
      " ", "b", "a", "c", "k", " ", "s", "o", "o", "n", "!", " ",
      "[newspaper]">>

\* 'No news available at this time.'
NoNewsText ==
    <<"N", "o", " ", "n", "e", "w", "s", " ", "a", "v", "a", "i", "l", "a",
      "b", "l", "e", " ", "a", "t", " ", "t", "h", "i", "s", " ", "t", "i",
      "m", "e", ".">>

\* 'Rates cut by RBI.'
SummaryPlainText ==
    <<"R", "a", "t", "e", "s", " ", "c", "u", "t", " ", "b", "y", " ", "R",
      "B", "I", ".">>

\* '"Summary: **Rates** cut."'
SummaryLabelledText ==
    <<"\"", "S", "u", "m", "m", "a", "r", "y", ":", " ", "*", "*", "R", "a",
      "t", "e", "s", "*", "*", " ", "c", "u", "t", ".", "\"">>

\* a title of 85 characters
TitleVeryLong == [i \in 1..85 |-> IF i % 9 = 0 THEN " " ELSE "a"]

SummarizerTitles == {TitlePlain, TitleShort, TitleLongX, TitleVeryLong}

\* how ai.summarize settles: a provider answers plain text, a provider answers
\* a quoted and labelled text, every provider fails, or the call rejects
SummarizeOutcomes == {"text", "labelled", "allFailed", "rejects"}

SummarizePrompt == [op |-> "summarize", text |-> {}]

\* what this.generate(prompt) returns to BeastModeAI.summarize
SummarizeResult(outcome) ==
    CASE outcome = "text" -> SummaryPlainText
      [] outcome = "labelled" -> SummaryLabelledText
      [] OTHER ->
          IF GetSafeDefault(SummarizePrompt) = "summaryDefault"
          THEN SummaryDefaultText ELSE <<>>

\* the labels of /^(Breaking|Update|News|Summary|Your|Here)[:\ s]*/gi
SummaryLabels ==
    {<<"b", "r", "e", "a", "k", "i", "n", "g">>, <<"u", "p", "d", "a", "t", "e">>,
     <<"n", "e", "w", "s">>, <<"s", "u", "m", "m", "a", "r", "y">>,
     <<"y", "o", "u", "r">>, <<"h", "e", "r", "e">>}

\* the emoji of the fifth replace, by name
SummaryEmoji ==
    {"[siren]", "[fire]", "[zap]", "[newspaper]", "[flagIN]", "[globe]", "[boom]",
     "[exclamation]"}

\* BeastModeAI.summarize: the cleaning of the result
AISummarize(result) ==
    Trim(CollapseWhitespace(
        RemoveChars(
            RemoveLabel(StripQuotes(RemoveChars(result, {"*"})), SummaryLabels),
            SummaryEmoji)))

\* .replace(/\n/g, ' ')
ReplaceNewlines(s) == [i \in DOMAIN s |-> IF s[i] = "\n" THEN " " ELSE s[i]]

\* the cleanSummary of SummarizerAgent.summarize
CleanSummary(oneLiner) == Trim(ReplaceNewlines(StripQuotes(oneLiner)))

\* the number of characters kept of the first title
TitleFallbackLength == 80

\* articles[0].title.slice(0, 80)
TitleFallback(articles) == SliceTo(articles[1], TitleFallbackLength)

SummarizeInit ==
    /\ sumPc = "called"
    /\ sumArticles \in ListsUpTo(SummarizerTitles, MaxArticles)
    /\ sumOutcome = "none"
    /\ sumOneLiner = <<>>

\* summarize up to the await: no article, no AI call
SummarizeCalled ==
    /\ sumPc = "called"
    /\ IF Len(sumArticles) = 0
       THEN /\ sumOneLiner' = NoNewsText
            /\ sumPc' = "returned"
       ELSE /\ sumPc' = "aiSummarize"
            /\ UNCHANGED sumOneLiner
    /\ UNCHANGED <<sumArticles, sumOutcome>>
    /\ UNCHANGED notSummarize

\* await this.ai.summarize(...) settles: the rest of the try block, or the
\* catch block
AISummarizeSettles ==
    /\ sumPc = "aiSummarize"
    /\ \E outcome \in SummarizeOutcomes :
         /\ sumOutcome' = outcome
         /\ sumOneLiner' =
               IF outcome = "rejects" THEN TitleFallback(sumArticles)
               ELSE CleanSummary(AISummarize(SummarizeResult(outcome)))
    /\ sumPc' = "returned"
    /\ UNCHANGED sumArticles
    /\ UNCHANGED notSummarize

NextSummarize == SummarizeCalled \/ AISummarizeSettles

-----------------------------------------------------------------------------
(***************************************************************************)
(* POSTING ADAPTER (TwitterService.postTweet and the StatsService          *)
(* counters it updates)                                                    *)
(***************************************************************************)

\* the values of rateLimit.remaining an API answer can carry
RemainingValues == 0..3

\* the rateLimit of an API answer: <<remaining>>, or <<>> when it has none
RateLimits == {<<>>} \cup {<<n>> : n \in RemainingValues}

\* the counters loadStats() found
PostInit ==
    /\ postPc = "idle"
    /\ postStats \in [tweetsToday : 0..MaxTweets, remainingQuota : 0..MaxQuota]
    /\ postCalls = 0
    /\ rateLimit = <<>>
    /\ postOutcome = "none"
    /\ sentBefore = 0

\* postTweet(text), up to its await of this.client.v2.tweet(...)
PostTweetCalled ==
    /\ postPc \in {"idle", "returned"}
    /\ postCalls < MaxPosts
    /\ postPc' = "tweet"
    /\ postCalls' = postCalls + 1
    /\ rateLimit' = <<>>
    /\ postOutcome' = "none"
    /\ sentBefore' = postStats.tweetsToday
    /\ UNCHANGED postStats
    /\ UNCHANGED notPost

\* the API call resolves: updateQuota if the answer has a rateLimit, then
\* incrementTweets
TweetResolves ==
    /\ postPc = "tweet"
    /\ \E header \in RateLimits :
         /\ rateLimit' = header
         /\ postStats' =
               [tweetsToday |-> postStats.tweetsToday + 1,
                remainingQuota |->
                    DecrementQuota(UpdateQuota(postStats.remainingQuota, header))]
    /\ postOutcome' = "success"
    /\ postPc' = "returned"
    /\ UNCHANGED <<postCalls, sentBefore>>
    /\ UNCHANGED notPost

\* the API call rejects: updateQuota if the error has a rateLimit
TweetRejects ==
    /\ postPc = "tweet"
    /\ \E header \in RateLimits :
         /\ rateLimit' = header
         /\ postStats' =
               [postStats EXCEPT !.remainingQuota = UpdateQuota(@, header)]
    /\ postOutcome' = "failure"
    /\ postPc' = "returned"
    /\ UNCHANGED <<postCalls, sentBefore>>
    /\ UNCHANGED notPost

NextPost == PostTweetCalled \/ TweetResolves \/ TweetRejects

-----------------------------------------------------------------------------
(***************************************************************************)
(* NEWS TEXT (Pipeline.run in news mode with one category: the text from   *)
(* the summarizer to the posting adapter)                                  *)
(*                                                                         *)
(* Every call of the gateway is either answered by a provider or gets the  *)
(* safe default after every provider failed.  The headline and the opinion *)
(* are not part of the tweet text, their calls are left out; the virality  *)
(* stage is taken by its result.  All texts are under 200 characters, so   *)
(* truncateAtWord returns them as they are.                                *)
(***************************************************************************)

\* "no updates"
NoUpdatesMarker ==
    <<"n", "o", " ", "u", "p", "d", "a", "t", "e", "s">>

\* the shortest text that may be posted
MinTweetLength == 20

\* a summary has to be longer than this to become a story
MinStoryLength == 15

\* 'No news'
NoNewsMarker == <<"N", "o", " ", "n", "e", "w", "s">>

\* 'No updates at this time'
NoUpdatesText ==
    <<"N", "o", " ", "u", "p", "d", "a", "t", "e", "s", " ", "a", "t", " ",
      "t", "h", "i", "s", " ", "t", "i", "m", "e">>

\* config.bot.customHashtags joined: '#News #Breaking'
DefaultHashtags ==
    <<"#", "N", "e", "w", "s", " ", "#", "B", "r", "e", "a", "k", "i", "n",
      "g">>

\* 'News: Latest headlines and updates! ' and the newspaper emoji
RewriteDefaultText ==
    <<"N", "e", "w", "s", ":", " ", "L", "a", "t", "e", "s", "t", " ", "h",
      "e", "a", "d", "l", "i", "n", "e", "s", " ", "a", "n", "d", " ", "u",
      "p", "d", "a", "t", "e", "s", "!", " ", "[newspaper]">>

\* 'Have rates peaked? #Fed #Rates'
EnhancedTweetText ==
    <<"H", "a", "v", "e", " ", "r", "a", "t", "e", "s", " ", "p", "e", "a",
      "k", "e", "d", "?", " ", "#", "F", "e", "d", " ", "#", "R", "a", "t",
      "e", "s">>

NewsTitleLists == {<<TitleOfLongWords>>, <<TitlePlain, TitleOfLongWords>>}

\* how a call of the gateway settles
GatewayOutcomes == {"answered", "allFailed"}

\* what a provider answers the evaluation prompt: a score of 9, a score of 3
NewsEvalResponses ==
    {[kind |-> "json", hasScore |-> TRUE, score |-> 9, feedback |-> ""],
     [kind |-> "json", hasScore |-> TRUE, score |-> 3, feedback |-> "fb"]}

\* the response of generate to the evaluation prompt: the safe default of
\* that prompt is the summary one, which holds no braces
EvaluateResponse(outcome, response) ==
    IF outcome = "allFailed"
          /\ GetSafeDefault([op |-> "evaluate", text |-> {}]) = "summaryDefault"
    THEN [kind |-> "noBraces"] ELSE response

\* the response of generate to the virality prompt: the safe default of that
\* prompt is '{"score": 7, "suggestions": []}'
ViralityResponse(outcome, response) ==
    IF outcome = "allFailed"
          /\ GetSafeDefault([op |-> "checkVirality", text |-> {}]) = "scoreDefault"
    THEN [kind |-> "json", hasScore |-> TRUE, score |-> 7, suggestions |-> <<>>]
    ELSE response

\* what this.generate(prompt) returns to rewriteOriginal
RewriteResult(outcome, answer) ==
    IF outcome = "allFailed"
          /\ GetSafeDefault([op |-> "rewriteOriginal", text |-> {}]) = "rewriteDefault"
    THEN RewriteDefaultText ELSE answer

\* the labels of /^(Rewritten|Output)[:\ s]*/gi
RewriteLabels ==
    {<<"r", "e", "w", "r", "i", "t", "t", "e", "n">>, <<"o", "u", "t", "p", "u", "t">>}

\* BeastModeAI.rewriteOriginal: the cleaning of the result
AIRewriteOriginal(result) ==
    Trim(RemoveChars(RemoveLabel(RemoveChars(result, {"*"}), RewriteLabels),
                     SummaryEmoji))

\* TweetComposer.compose for one summary: getSortedStories, then
\* buildTweetWithConfig with the default emoji and hashtags
BuildTweet(text) ==
    IF Len(text) > MinStoryLength /\ ~IncludesText(text, NoNewsMarker)
    THEN Trim(<<"[newspaper]", "\n", "\n">> \o text \o <<"\n", "\n">>
              \o DefaultHashtags)
    ELSE NoUpdatesText

\* firstTweet.toLowerCase().includes('no updates') || firstTweet.length < 20
DegenerateText(text) ==
    \/ IncludesText(ToLowerCase(text), NoUpdatesMarker)
    \/ Len(text) < MinTweetLength

\* the record of how the calls of the gateway settled
Logged(op, outcome) ==
    /\ newsAnswered' = (newsAnswered \/ outcome = "answered")
    /\ newsDefaulted' =
          IF outcome = "allFailed" THEN newsDefaulted \cup {op} ELSE newsDefaulted

NewsInit ==
    /\ newsPc = "summarize"
    /\ newsTitles \in NewsTitleLists
    /\ newsSummary = <<>>
    /\ newsIteration = 0
    /\ newsAttempt = 1
    /\ newsTweet = <<>>
    /\ newsPosted = <<>>
    /\ newsAnswered = FALSE
    /\ newsDefaulted = {}

\* await this.summarizer.summarize(articles, maxChars)
NewsSummarizeSettles ==
    /\ newsPc = "summarize"
    /\ \E outcome \in GatewayOutcomes :
         /\ newsSummary' =
               CleanSummary(AISummarize(SummarizeResult(
                   IF outcome = "answered" THEN "text" ELSE outcome)))
         /\ Logged("summarize", outcome)
    /\ newsPc' = IF 0 < MaxReflexionIterations THEN "evaluate" ELSE "rewriteOriginal"
    /\ UNCHANGED <<newsTitles, newsIteration, newsAttempt, newsTweet, newsPosted>>
    /\ UNCHANGED notNews

\* await this.evaluator.evaluate(summary) in the while loop, which leaves the
\* summary as it is
NewsEvaluateSettles ==
    /\ newsPc = "evaluate"
    /\ \E outcome \in GatewayOutcomes, response \in NewsEvalResponses :
         LET evaluation == EvaluatorEvaluate(EvaluateResponse(outcome, response))
         IN  /\ Logged("evaluate", outcome)
             /\ IF evaluation.passed
                THEN newsPc' = "rewriteOriginal" /\ UNCHANGED newsIteration
                ELSE /\ newsIteration' = newsIteration + 1
                     /\ newsPc' = IF newsIteration + 1 < MaxReflexionIterations
                                  THEN "evaluate" ELSE "rewriteOriginal"
    /\ UNCHANGED <<newsTitles, newsSummary, newsAttempt, newsTweet, newsPosted>>
    /\ UNCHANGED notNews

\* summaries.set(category, finalSummary); ...; this.composer.compose(...);
\* the call of ensureViral
NewsCompose(finalSummary) ==
    /\ newsSummary' = finalSummary
    /\ newsTweet' = BuildTweet(finalSummary)
    /\ newsPc' = "ensureViral"
    /\ UNCHANGED newsAttempt

\* ensureOriginal(summary.oneLiner, originalTitles, 2, maxChars)
NewsMaxAttempts == 2

\* await this.ai.rewriteOriginal(...) in the for loop of ensureOriginal
NewsRewriteSettles ==
    /\ newsPc = "rewriteOriginal"
    /\ \E outcome \in GatewayOutcomes, answer \in Rewrites(newsTitles) :
         LET cleaned == Clean(AIRewriteOriginal(RewriteResult(outcome, answer)))
         IN  /\ Logged("rewriteOriginal", outcome)
             /\ IF ~IsTooSimilar(cleaned, newsTitles)
                THEN NewsCompose(cleaned)
                ELSE IF newsAttempt < NewsMaxAttempts
                THEN /\ newsSummary' = cleaned
                     /\ newsAttempt' = newsAttempt + 1
                     /\ UNCHANGED <<newsPc, newsTweet>>
                ELSE \E fallback \in SafeFallbacks(newsTitles) : NewsCompose(fallback)
    /\ UNCHANGED <<newsTitles, newsIteration, newsPosted>>
    /\ UNCHANGED notNews

\* what a provider answers the virality prompt: a score of 9, a score of 3
NewsViralResponses ==
    {[kind |-> "json", hasScore |-> TRUE, score |-> 9, suggestions |-> <<>>],
     [kind |-> "json", hasScore |-> TRUE, score |-> 3, suggestions |-> <<"tip">>]}

\* await this.viralityAgent.ensureViral(tweets[0], 1), the gate on the first
\* tweet and the call of the posting adapter.  A text that is not viral is
\* enhanced, and the enhanced text is used or not.
NewsViralSettles ==
    /\ newsPc = "ensureViral"
    /\ \E outcome \in GatewayOutcomes, response \in NewsViralResponses,
          useEnhanced \in BOOLEAN :
         LET check == CheckVirality(ViralityResponse(outcome, response))
             firstTweet == IF ~check.isViral /\ useEnhanced
                           THEN EnhancedTweetText ELSE newsTweet
         IN  /\ Logged("checkVirality", outcome)
             /\ newsTweet' = firstTweet
             /\ newsPosted' = IF DegenerateText(firstTweet) THEN <<>> ELSE firstTweet
    /\ newsPc' = "returned"
    /\ UNCHANGED <<newsTitles, newsSummary, newsIteration, newsAttempt>>
    /\ UNCHANGED notNews

NextNews ==
    \/ NewsSummarizeSettles
    \/ NewsEvaluateSettles
    \/ NewsRewriteSettles
    \/ NewsViralSettles

-----------------------------------------------------------------------------
(*                            SPECIFICATIONS                               *)

\* a constructed, unused client
KeysIdle ==
    /\ svc = "gnews"
    /\ apiKeys = 1
    /\ keyKind = [k \in {0} |-> "good"]
    /\ currentKeyIndex = 0
    /\ exhaustedKeys = {}
    /\ reqPc = "idle"
    /\ attempts = 0
    /\ retry = 0
    /\ results = <<>>
    /\ foundExhausted = {}
    /\ calledThisReq = {}
    /\ retriedExhausted = FALSE
    /\ lastThrottled = FALSE

\* a constructed, unused gateway
AIIdle ==
    /\ AIInit
    /\ mistral
    /\ gemini

\* a constructed scheduler, never started, with fresh counters
SchedulerIdle ==
    /\ SchedulerInit
    /\ tweetsToday = 0
    /\ remainingQuota = MaxQuota

MergeIdle ==
    /\ mergeInput = <<>>
    /\ merged = <<>>
    /\ remerged = <<>>
    /\ mergePc = "input"

FetchIdle ==
    /\ fetchPc = "generateSearchQuery"
    /\ limit = 1
    /\ optimizedQuery = FALSE
    /\ queryOutcome = "none"
    /\ searchQuery = <<>>
    /\ rawAnswers = [p \in Providers |-> <<>>]
    /\ pending = {}
    /\ providerArticles = [p \in Providers |-> <<>>]
    /\ fetchMerged = <<>>
    /\ fetched = <<>>

OriginalityIdle ==
    /\ ensurePc = "returned"
    /\ originalTitles = <<>>
    /\ maxAttempts = 0
    /\ attempt = 0
    /\ summary = <<>>
    /\ inputSummary = <<>>
    /\ rewriteCalls = 0
    /\ originalResult = NoOriginalResult

DryRunIdle ==
    /\ dryPc = "returned"
    /\ dryConfig = NoConfig
    /\ dryCatIndex = 0
    /\ dryCalled = {}
    /\ drySummaries = 0

SheetsIdle ==
    /\ sheetUrl = FALSE
    /\ cachedConfig = NoCachedConfig
    /\ lastFetch = 0
    /\ configPc = "idle"
    /\ configCalls = 0
    /\ fetchesIssued = 0
    /\ configResult = NoConfigResult
    /\ lastGood = NoCachedConfig

ThreadIdle ==
    /\ threadPc = "returned"
    /\ threadLen = 0
    /\ threadIndex = 0
    /\ threadRetries = 0
    /\ lastTweetId = 0
    /\ threadIds = <<>>
    /\ threadLog = <<>>
    /\ threadFailed = {}
    /\ threadResult = NoThreadResult

QualityIdle ==
    /\ qualityPc = "idle"
    /\ qSummary = 0
    /\ qIteration = 0
    /\ qResponse = NoResponse
    /\ qEvaluation = NoEvaluation
    /\ evaluated = <<>>
    /\ memories = <<>>
    /\ refineCalls = 0
    /\ passedOn = NoText

ViralIdle ==
    /\ viralPc = "idle"
    /\ currentTweet = "none"
    /\ wasEnhanced = FALSE
    /\ viralIteration = 0
    /\ scored = <<>>
    /\ viralResult = NoViralResult
    /\ usedTweet = "none"

SummarizeIdle ==
    /\ sumPc = "returned"
    /\ sumArticles = <<>>
    /\ sumOutcome = "none"
    /\ sumOneLiner = <<>>

PostIdle ==
    /\ postPc = "idle"
    /\ postStats = [tweetsToday |-> 0, remainingQuota |-> 0]
    /\ postCalls = 0
    /\ rateLimit = <<>>
    /\ postOutcome = "none"
    /\ sentBefore = 0

NewsIdle ==
    /\ newsPc = "returned"
    /\ newsTitles = <<>>
    /\ newsSummary = <<>>
    /\ newsIteration = 0
    /\ newsAttempt = 1
    /\ newsTweet = <<>>
    /\ newsPosted = <<>>
    /\ newsAnswered = FALSE
    /\ newsDefaulted = {}

InitKeys ==
    KeysInit /\ AIIdle /\ PipelineInit /\ SchedulerIdle /\ MergeIdle
    /\ FetchIdle /\ OriginalityIdle /\ DryRunIdle /\ SheetsIdle /\ ThreadIdle
    /\ QualityIdle /\ ViralIdle /\ SummarizeIdle /\ PostIdle /\ NewsIdle

SpecKeys == InitKeys /\ [][NextKeys]_vars

\* the client keeps being called while requests are left, and every awaited
\* call settles
SpecKeysLive == InitKeys /\ [][NextKeys]_vars /\ WF_vars(NextKeys)

InitAI ==
    AIInit /\ KeysIdle /\ PipelineInit /\ SchedulerIdle /\ MergeIdle
    /\ FetchIdle /\ OriginalityIdle /\ DryRunIdle /\ SheetsIdle /\ ThreadIdle
    /\ QualityIdle /\ ViralIdle /\ SummarizeIdle /\ PostIdle /\ NewsIdle

SpecAI == InitAI /\ [][NextAI]_vars

InitPipeline ==
    PipelineInit /\ KeysIdle /\ AIIdle /\ SchedulerIdle /\ MergeIdle
    /\ FetchIdle /\ OriginalityIdle /\ DryRunIdle /\ SheetsIdle /\ ThreadIdle
    /\ QualityIdle /\ ViralIdle /\ SummarizeIdle /\ PostIdle /\ NewsIdle

SpecPipeline == InitPipeline /\ [][NextPipeline]_vars

\* every awaited call settles: the continuation of a run in flight is taken
SpecPipelineLive ==
    InitPipeline /\ [][NextPipeline]_vars /\ WF_vars(\E c \in Callers : Settle(c))

InitScheduler ==
    SchedulerInit /\ KeysIdle /\ AIIdle /\ PipelineInit /\ MergeIdle
    /\ FetchIdle /\ OriginalityIdle /\ DryRunIdle /\ SheetsIdle /\ ThreadIdle
    /\ QualityIdle /\ ViralIdle /\ SummarizeIdle /\ PostIdle /\ NewsIdle

SpecScheduler == InitScheduler /\ [][NextScheduler]_vars

\* every awaited call of a cycle in flight settles
SpecSchedulerLive ==
    /\ InitScheduler
    /\ [][NextScheduler]_vars
    /\ \A ch \in Chains : WF_vars(SchedSettle(ch))

InitMerge ==
    MergeInit /\ KeysIdle /\ AIIdle /\ PipelineInit /\ SchedulerIdle
    /\ FetchIdle /\ OriginalityIdle /\ DryRunIdle /\ SheetsIdle /\ ThreadIdle
    /\ QualityIdle /\ ViralIdle /\ SummarizeIdle /\ PostIdle /\ NewsIdle

SpecMerge == InitMerge /\ [][NextMerge]_vars

InitFetch ==
    FetchInit /\ KeysIdle /\ AIIdle /\ PipelineInit /\ SchedulerIdle
    /\ MergeIdle /\ OriginalityIdle /\ DryRunIdle /\ SheetsIdle /\ ThreadIdle
    /\ QualityIdle /\ ViralIdle /\ SummarizeIdle /\ PostIdle /\ NewsIdle

SpecFetch == InitFetch /\ [][NextFetch]_vars

InitOriginality ==
    OriginalityInit /\ KeysIdle /\ AIIdle /\ PipelineInit /\ SchedulerIdle
    /\ MergeIdle /\ FetchIdle /\ DryRunIdle /\ SheetsIdle /\ ThreadIdle
    /\ QualityIdle /\ ViralIdle /\ SummarizeIdle /\ PostIdle /\ NewsIdle

SpecOriginality == InitOriginality /\ [][NextOriginality]_vars

InitDryRun ==
    DryRunInit /\ KeysIdle /\ AIIdle /\ PipelineInit /\ SchedulerIdle
    /\ MergeIdle /\ FetchIdle /\ OriginalityIdle /\ SheetsIdle /\ ThreadIdle
    /\ QualityIdle /\ ViralIdle /\ SummarizeIdle /\ PostIdle /\ NewsIdle

SpecDryRun == InitDryRun /\ [][NextDryRun]_vars

InitSheets ==
    SheetsInit /\ KeysIdle /\ AIIdle /\ PipelineInit /\ SchedulerIdle
    /\ MergeIdle /\ FetchIdle /\ OriginalityIdle /\ DryRunIdle /\ ThreadIdle
    /\ QualityIdle /\ ViralIdle /\ SummarizeIdle /\ PostIdle /\ NewsIdle

SpecSheets == InitSheets /\ [][NextSheets]_vars

InitThread ==
    ThreadInit /\ KeysIdle /\ AIIdle /\ PipelineInit /\ SchedulerIdle
    /\ MergeIdle /\ FetchIdle /\ OriginalityIdle /\ DryRunIdle /\ SheetsIdle
    /\ QualityIdle /\ ViralIdle /\ SummarizeIdle /\ PostIdle /\ NewsIdle

SpecThread == InitThread /\ [][NextThread]_vars

InitQuality ==
    QualityInit /\ KeysIdle /\ AIIdle /\ PipelineInit /\ SchedulerIdle
    /\ MergeIdle /\ FetchIdle /\ OriginalityIdle /\ DryRunIdle /\ SheetsIdle
    /\ ThreadIdle /\ ViralIdle /\ SummarizeIdle /\ PostIdle /\ NewsIdle

SpecQuality == InitQuality /\ [][NextQuality]_vars

InitViral ==
    ViralInit /\ KeysIdle /\ AIIdle /\ PipelineInit /\ SchedulerIdle
    /\ MergeIdle /\ FetchIdle /\ OriginalityIdle /\ DryRunIdle /\ SheetsIdle
    /\ ThreadIdle /\ QualityIdle /\ SummarizeIdle /\ PostIdle /\ NewsIdle

SpecViral == InitViral /\ [][NextViral]_vars

InitSummarize ==
    SummarizeInit /\ KeysIdle /\ AIIdle /\ PipelineInit /\ SchedulerIdle
    /\ MergeIdle /\ FetchIdle /\ OriginalityIdle /\ DryRunIdle /\ SheetsIdle
    /\ ThreadIdle /\ QualityIdle /\ ViralIdle /\ PostIdle /\ NewsIdle

SpecSummarize == InitSummarize /\ [][NextSummarize]_vars

InitPost ==
    PostInit /\ KeysIdle /\ AIIdle /\ PipelineInit /\ SchedulerIdle /\ MergeIdle
    /\ FetchIdle /\ OriginalityIdle /\ DryRunIdle /\ SheetsIdle /\ ThreadIdle
    /\ QualityIdle /\ ViralIdle /\ SummarizeIdle /\ NewsIdle

SpecPost == InitPost /\ [][NextPost]_vars

InitNews ==
    NewsInit /\ KeysIdle /\ AIIdle /\ PipelineInit /\ SchedulerIdle /\ MergeIdle
    /\ FetchIdle /\ OriginalityIdle /\ DryRunIdle /\ SheetsIdle /\ ThreadIdle
    /\ QualityIdle /\ ViralIdle /\ SummarizeIdle /\ PostIdle

SpecNews == InitNews /\ [][NextNews]_vars

-----------------------------------------------------------------------------
(*                                CLAIMS                                   *)

\* The pool of the rotation scenario: credentials 1..K-1 answer with a hard
\* quota/auth failure and credential K serves the request.
RotationPool ==
    /\ \A k \in 0..(apiKeys - 2) : keyKind[k] = "dead"
    /\ keyKind[apiKeys - 1] = "good"

\* C1: on a pool whose credentials 1..K-1 answer with a hard quota/auth failure
\* and whose credential K succeeds, every request succeeds, and no later
\* request issues an HTTP call with a credential an earlier request found
\* exhausted.
C1_Rotation ==
    RotationPool =>
        /\ \A i \in 1..Len(results) : results[i] = "ok"
        /\ ~retriedExhausted

\* C1 witness: a pool of at least two credentials, the first ones found
\* exhausted, and a second request served after the first.
C1_Witness ==
    /\ RotationPool
    /\ apiKeys >= 2
    /\ foundExhausted = 0..(apiKeys - 2)
    /\ Len(results) >= 2
    /\ \A i \in 1..Len(results) : results[i] = "ok"

\* C2: generate never throws: whatever the provider configuration, the outcome
\* of the primary and of the secondary and the circuit state, every finished
\* generate call gave its caller a provider text or a safe default.
C2_NeverThrows ==
    /\ genResult \in ({"none", "primaryText", "secondaryText"} \cup SafeDefaults)
    /\ (genPc = "idle" /\ callCount > 0) => genResult # "none"

\* C2 witness: the primary threw, the secondary threw a rate-limit error, and
\* the caller got a safe default.
C2_Witness ==
    /\ genPc = "idle"
    /\ primaryOutcome = "threw"
    /\ secondaryOutcome = "rateLimited"
    /\ genResult \in SafeDefaults

\* C3 as stated: no generate call made while a rate-limit cooldown is running
\* (before its timestamp) reaches the secondary provider.
C3_Original == (genPc = "gemini") => ~startedInWindow

\* C3 amended: the secondary provider is never called while the clock is at or
\* before the cooldown timestamp, and whenever the primary fails at a time
\* after the cooldown timestamp the call is routed to the secondary again.
C3_Circuit ==
    /\ [](genPc = "gemini" => now > geminiDisabledUntil)
    /\ [][(genPc = "mistral" /\ primaryOutcome' = "threw" /\ gemini
             /\ now > geminiDisabledUntil) => genPc' = "gemini"]_vars

\* C3 witness: the circuit was opened by a rate-limit failure, the cooldown has
\* passed, the primary threw and the secondary is being called again.
C3_Witness ==
    /\ openedBy = "rate"
    /\ geminiDisabledUntil > 0
    /\ now > geminiDisabledUntil
    /\ primaryOutcome = "threw"
    /\ genPc = "gemini"

\* C4: when the primary throws while the secondary's circuit is open, a prompt
\* built by generateHeadline gets the headline default, whatever text is
\* embedded in it.
C4_HeadlineDefault ==
    [][(genPc = "mistral" /\ prompt.op = "generateHeadline"
          /\ primaryOutcome' = "threw" /\ secondaryOutcome' = "circuitOpen")
         => genResult' = "headlineDefault"]_vars

\* the callers whose run() is past the guard and has not returned
InProgress == {c \in Callers : frame[c].pc # "idle"}

\* C5: on one Pipeline instance at most one run is in progress at any time;
\* a run() issued while another is running returns {success: false, tweetIds: []}
\* at once, with no config fetch and no adapter call, and leaves the guard and
\* the run in flight as they were.
C5_Reentrancy ==
    /\ [](Cardinality(InProgress) <= 1)
    /\ [][(runsStarted' # runsStarted /\ pipelineIsRunning) =>
            /\ pipelineIsRunning'
            /\ frame' = frame
            /\ ~finished'.accepted
            /\ finished'.result = Failure
            /\ finished'.called = {}]_vars

C5_Witness ==
    \E c \in Callers :
        /\ frame[c].pc \notin {"idle", "getConfig"}
        /\ pipelineIsRunning
        /\ finished.caller \in Callers \ {c}
        /\ ~finished.accepted
        /\ finished.result = Failure

\* C6: when an accepted run finishes, by any path, the guard is cleared; a
\* run() made while the guard is clear is accepted; and, every awaited call
\* settling, a running pipeline always becomes idle again.
C6_GuardCleared ==
    /\ [][/\ (\E c \in Callers : frame[c].pc # "idle" /\ frame'[c].pc = "idle")
               => ~pipelineIsRunning'
          /\ (runsStarted' # runsStarted /\ ~pipelineIsRunning)
               => (pipelineIsRunning' /\ InProgress' # {})]_vars
    /\ (pipelineIsRunning ~> ~pipelineIsRunning)

\* a second run is in flight: the first one returned and cleared the guard
C6_Witness ==
    /\ runsStarted = 2
    /\ finished = NoRun
    /\ \E c \in Callers : frame[c].pc = "fetch"

\* C7: run() never throws to its caller; every outcome in which nothing was
\* posted is {success: false, tweetIds: []}; success = true implies a non-empty
\* tweetIds.
C7_StructuredFailure ==
    /\ finished.result.kind # "threw"
    /\ (finished # NoRun /\ finished.posted = 0) => finished.result = Failure
    /\ (finished.result.kind = "returned" /\ finished.result.success)
          => finished.result.tweetIds # <<>>

C7_Witness ==
    /\ finished.accepted
    /\ "post" \in finished.called
    /\ finished.posted = 0
    /\ finished.result = Failure

\* the run is a news-mode run
NewsMode(f) ==
    /\ f.sheetConfig # NoConfig
    /\ f.sheetConfig.isActive
    /\ ~(~f.sheetConfig.isNewsTweet /\ f.sheetConfig.customTopic)

\* C8: in a news-mode run in which every active category yields zero fresh
\* articles no posting operation is invoked, and the run reports success = false.
C8_NoPostOnEmpty ==
    /\ \A c \in Callers :
         (NewsMode(frame[c]) /\ frame[c].fresh = 0) =>
             /\ frame[c].pc = "fetch"
             /\ "post" \notin frame[c].called
             /\ frame[c].posted = 0
    /\ (NewsMode(finished) /\ finished.fresh = 0) =>
         /\ finished.result.kind = "returned"
         /\ ~finished.result.success
         /\ "post" \notin finished.called
         /\ finished.posted = 0

C8_Witness ==
    /\ NewsMode(finished)
    /\ finished.sheetConfig.activeCategories = 2
    /\ finished.catIndex = 2
    /\ finished.fresh = 0
    /\ finished.result = Failure
    /\ finished.called = {"config", "news"}

\* C9: when the remote config has isActive = false, run() returns
\* {success: false, tweetIds: []} and calls no news, AI, image or posting
\* adapter after the config fetch.
C9_Inactive ==
    /\ \A c \in Callers :
         frame[c].sheetConfig # NoConfig => frame[c].sheetConfig.isActive
    /\ (finished.sheetConfig # NoConfig /\ ~finished.sheetConfig.isActive) =>
         /\ finished.result = Failure
         /\ finished.called = {"config"}
         /\ finished.posted = 0

C9_Witness ==
    /\ finished.sheetConfig # NoConfig
    /\ ~finished.sheetConfig.isActive
    /\ finished.sheetConfig.isNewsTweet
    /\ finished.accepted
    /\ finished.result = Failure

\* C10: in any scheduler cycle in which posts-sent-today >= max-daily-posts, or
\* the remaining quota is <= 0, the pipeline is not run in that cycle and the
\* next timer is armed for exactly 1 hour.
C10_QuotaGovernor ==
    \A ch \in Chains :
        chain[ch].capped =>
            /\ ~chain[ch].ran
            /\ chain[ch].pc = "timer"
            /\ chain[ch].armed = CapWait

\* C11: when the calendar date changes, posts-sent-today is reset to 0 in the
\* running process: a cycle that reads the counters on another day than the
\* one they were last reset on finds them reset, and dated today.
C11_DailyReset ==
    [][\A ch \in Chains :
         (chain[ch].pc = "getConfig" /\ chain'[ch].pc # "getConfig"
            /\ today # lastResetDate)
           => (tweetsToday' = 0 /\ lastResetDate' = today)]_vars

\* the interval a cycle starts from: the one of the sheet, or the default
\* when the sheet gives 0
ConfiguredInterval(f) ==
    IF f.tweetInterval # 0 THEN f.tweetInterval ELSE DefaultInterval

C13_SchedulerLiveness ==
    /\ [][\A ch \in Chains :
            /\ (chain[ch].pc \notin {"none", "timer"}
                   /\ chain'[ch].pc \in {"none", "timer"})
                 => (chain'[ch].pc = "timer" /\ chain'[ch].armed > 0)
            /\ (chain[ch].pc = "timer" /\ chain'[ch].pc = "none")
                 => ~schedulerIsRunning']_vars
    /\ \A ch \in Chains :
         (chain[ch].pc \notin {"none", "timer"}) ~> (chain[ch].pc = "timer")

\* a cycle of a running scheduler has run the pipeline and armed its timer
\* with the interval of the sheet
C13_Witness ==
    \E ch \in Chains :
        /\ schedulerIsRunning
        /\ chain[ch].pc = "timer"
        /\ chain[ch].ran
        /\ chain[ch].armed = 30

-----------------------------------------------------------------------------
(* C14: deduplication *)

\* the positions of a list whose titles pass the length test
LongEnough(articles) ==
    {i \in DOMAIN articles : Len(articles[i].title) > MinTitleLength}

\* the sublist of a list at a set of positions, in order
RECURSIVE SubList(_, _, _)
SubList(articles, positions, i) ==
    IF i > Len(articles) THEN <<>>
    ELSE (IF i \in positions THEN <<articles[i]>> ELSE <<>>)
            \o SubList(articles, positions, i + 1)

\* the first position of each normalized title among a set of positions
FirstOccurrences(articles, among) ==
    {i \in among :
        \A j \in among :
            j < i => NormalizeTitle(articles[j].title) # NormalizeTitle(articles[i].title)}

NoTwoAlike(list) ==
    \A i, j \in DOMAIN list :
        i < j => NormalizeTitle(list[i].title) # NormalizeTitle(list[j].title)

\* C14 as stated: for every input list the merged result holds no two articles
\* with the same normalized title, is the list of the first occurrences of each
\* key of the input, merging it again changes nothing, and two articles whose
\* titles differ only in case and punctuation yield exactly one article.
C14_Original ==
    /\ mergePc # "input" =>
         /\ NoTwoAlike(merged)
         /\ merged = SubList(mergeInput,
                             FirstOccurrences(mergeInput, DOMAIN mergeInput), 1)
         /\ (/\ Len(mergeInput) = 2
             /\ NormalizeTitle(mergeInput[1].title) = NormalizeTitle(mergeInput[2].title))
               => Len(merged) = 1
    /\ mergePc = "remerged" => remerged = merged

\* C14: for every input list the merged result holds no two articles with the
\* same normalized title; it is the list of the first occurrences of each key
\* among the articles whose raw title is longer than 10 characters, and holds
\* no other article; merging it again changes nothing; two articles whose
\* titles are longer than 10 characters and differ only in case and
\* punctuation yield exactly one article.
C14_Dedup ==
    /\ mergePc # "input" =>
         /\ NoTwoAlike(merged)
         /\ merged = SubList(mergeInput,
                             FirstOccurrences(mergeInput, LongEnough(mergeInput)), 1)
         /\ (/\ Len(mergeInput) = 2
             /\ LongEnough(mergeInput) = {1, 2}
             /\ NormalizeTitle(mergeInput[1].title) = NormalizeTitle(mergeInput[2].title))
               => Len(merged) = 1
    /\ mergePc = "remerged" => remerged = merged

C14_Witness ==
    /\ mergePc = "remerged"
    /\ mergeInput = <<[title |-> TitlePlain], [title |-> TitleVariant]>>
    /\ merged = <<[title |-> TitlePlain]>>
    /\ remerged = merged

-----------------------------------------------------------------------------
(* C15: freshness filter *)

Answered(p) == fetchPc # "generateSearchQuery" /\ p \notin pending

-----------------------------------------------------------------------------
(* C16: ordering *)

\* a comes before b in the order of the two tiers
Before(a, b) ==
    \/ a.publishedAt < FreshMinutes /\ b.publishedAt >= FreshMinutes
    \/ /\ (a.publishedAt < FreshMinutes) = (b.publishedAt < FreshMinutes)
       /\ a.publishedAt < b.publishedAt

\* C16: in the list fetch returns, every article of the last hour precedes
\* every older one and each tier is in descending order of publish time (no
\* article is behind one that comes after it in that order); the list has
\* min(limit, number of merged articles) entries, all of them merged articles,
\* and no merged article left out comes before one that is in.
C16_Ordering ==
    fetchPc = "returned" =>
       /\ \A i, j \in DOMAIN fetched : i < j => ~Before(fetched[j], fetched[i])
       /\ Len(fetched) <= limit
       /\ Len(fetched) = IF Len(fetchMerged) < limit THEN Len(fetchMerged) ELSE limit
       /\ Range(fetched) \subseteq Range(fetchMerged)
       /\ \A a \in Range(fetchMerged) \ Range(fetched) :
             \A b \in Range(fetched) : ~Before(a, b)

C16_Witness ==
    /\ fetchPc = "returned"
    /\ limit = 1
    /\ providerArticles["NewsData"] = <<[title |-> TitlePlain, publishedAt |-> 180]>>
    /\ providerArticles["GNews"] = <<[title |-> TitleShortLonger, publishedAt |-> 30]>>
    /\ fetched = <<[title |-> TitleShortLonger, publishedAt |-> 30]>>

-----------------------------------------------------------------------------
(* C17: originality *)

\* the text holds, verbatim (case apart), 5 consecutive words of a title
ContainsTitlePhrase(text, titles) ==
    \E n \in DOMAIN titles :
        LET words == SelectSeq(Split(ToLowerCase(titles[n])), LAMBDA w : w # <<>>)
        IN  \E i \in 0..(Len(words) - 5) :
               IncludesText(ToLowerCase(text), Join(SubSeq(words, i + 1, i + 5)))

\* C17: a rewritten summary that contains, verbatim, 5 consecutive words of a
\* source title is never returned as the final summary: what ensureOriginal
\* returns is either free of every such phrase or the templated fallback, the
\* fallback only after maxAttempts attempts, and never more than maxAttempts
\* rewrite calls are made.
C17_Originality ==
    /\ rewriteCalls <= maxAttempts
    /\ ensurePc = "returned" =>
         /\ ~originalResult.fallback =>
               ~ContainsTitlePhrase(originalResult.finalSummary, originalTitles)
         /\ originalResult.fallback =>
               /\ attempt > maxAttempts
               /\ originalResult.finalSummary \in SafeFallbacks(originalTitles)

-----------------------------------------------------------------------------
(* C19: custom-topic mode, topic flagged unsafe *)

\* C19: a run whose topic moderation flags unsafe returns at once with
\* success = false and no ids: no run goes on after such a verdict (so no
\* topic post is generated, no image is generated and nothing is posted), the
\* run has called the config and AI adapters only and has posted nothing, and
\* the step that returns it starts no other run.
C19_UnsafeTopic ==
    /\ [](/\ \A c \in Callers : frame[c].moderation # "unsafe"
          /\ finished.moderation = "unsafe" =>
               /\ finished.result = Failure
               /\ finished.called = {"config", "ai"}
               /\ finished.posted = 0)
    /\ [][\A c \in Callers :
            (frame[c].pc = "moderateContent" /\ finished'.moderation = "unsafe"
               /\ frame'[c] # frame[c])
              => /\ frame'[c] = IdleFrame
                 /\ runsStarted' = runsStarted
                 /\ \A o \in Callers \ {c} : frame'[o] = frame[o]]_vars

C19_Witness ==
    /\ finished.moderation = "unsafe"
    /\ finished.accepted
    /\ ~finished.sheetConfig.isNewsTweet
    /\ finished.sheetConfig.customTopic
    /\ finished.result = Failure
    /\ \A c \in Callers : frame[c].pc = "idle"

-----------------------------------------------------------------------------
(* C18: dry run *)

\* C18: on every path of dryRun, in custom-topic mode and in news mode, no
\* operation of the posting adapter is invoked, and no step changes the
\* number of posts sent today or the remaining quota.
C18_DryRunNeverPosts ==
    /\ [](dryCalled \cap PostingOps = {})
    /\ [][tweetsToday' = tweetsToday /\ remainingQuota' = remainingQuota]_vars

C18_Witness ==
    /\ dryPc = "returned"
    /\ ~dryConfig.isNewsTweet
    /\ dryConfig.customTopic
    /\ dryCalled = {"getConfig", "moderateContent", "generateCustomTopicTweet"}
    /\ drySummaries = 1
    /\ tweetsToday = 0
    /\ remainingQuota = MaxQuota

C18_WitnessNews ==
    /\ dryPc = "returned"
    /\ dryConfig.isNewsTweet
    /\ dryCalled = {"getConfig", "fetch", "summarize", "ensureOriginal"}
    /\ drySummaries = 2

-----------------------------------------------------------------------------
(* C20: remote config fetch *)

-----------------------------------------------------------------------------
(* C21: postThread chaining *)

\* C21: the first item is the only one posted without a reply target, every
\* other item is posted as a reply to the item before it (which has been
\* posted), and no item is posted after an item that failed to post.
C21_ThreadChaining ==
    \A k \in DOMAIN threadLog :
        /\ threadLog[k].replyTo = 0 <=> threadLog[k].item = 1
        /\ threadLog[k].item > 1 => threadLog[k].replyTo = threadLog[k].item - 1
        /\ \A f \in threadFailed : threadLog[k].item < f

-----------------------------------------------------------------------------
(* C22: postThread result *)

\* C22: postThread reports success = true only with at least one id in
\* tweetIds, whatever made the items fail, and no item is tried more than 3
\* times.
C22_ThreadResult ==
    /\ threadRetries <= ThreadMaxRetries
    /\ threadResult.kind = "returned" =>
         (threadResult.success => threadResult.tweetIds # <<>>)

-----------------------------------------------------------------------------
(* C23: a throttle signal is retried on the same credential *)

\* the number of HTTP calls made with the current credential in this visit of
\* it, while a call is awaited (NewsData issues one call per visit)
CallsOnKey == IF svc = "gnews" THEN retry + 1 ELSE 1

\* C23: when a call is answered with a throttle signal (HTTP 429 or the
\* 'short period' message) and fewer than 3 calls were made with the
\* credential, the client calls again with the same credential, the cursor
\* and the exhausted set untouched; in both clients.
C23_ThrottleRetry ==
    [][(reqPc = "await" /\ lastThrottled' /\ CallsOnKey < MaxRetry)
         => /\ reqPc' = "await"
            /\ currentKeyIndex' = currentKeyIndex
            /\ exhaustedKeys' = exhaustedKeys]_vars

-----------------------------------------------------------------------------
(* C24: a request fails only when the whole pool was tried or skipped *)

\* C24: a finished request that did not succeed went through every
\* credential of the pool (attempts = pool size) and failed with the 'all
\* credentials exhausted' error; no other answer ends it.
C24_FailsOnlyWhenAllTried ==
    (reqPc = "idle" /\ Len(results) > 0 /\ results[Len(results)] # "ok")
        => /\ results[Len(results)] = "allExhausted"
           /\ attempts >= apiKeys

-----------------------------------------------------------------------------
(* C25: the short circuit opening needs three consecutive failures *)

\* C25: while the circuit is open for the short cooldown, the last three
\* secondary calls (at least) all failed without a rate limit, none of them
\* separated by a call that succeeded.
C25_ThreeConsecutive ==
    (geminiDisabled /\ openedBy = "fails") => failStreak >= FailThreshold

-----------------------------------------------------------------------------
(* C26: the verdict of evaluate *)

\* C26: when the AI response holds an integer score s in 0..10, the
\* evaluation has score = s and passed = (s >= 7); the default
\* {passed: true, score: 7} is only given for a response that cannot be
\* parsed.
C26_Evaluate ==
    /\ (qResponse.kind = "json" /\ qResponse.hasScore)
         => /\ qEvaluation.score = qResponse.score
            /\ qEvaluation.passed = (qResponse.score >= PassThreshold)
    /\ qResponse.kind \in {"noBraces", "badJson"}
         => (qEvaluation.passed /\ qEvaluation.score = PassThreshold)

-----------------------------------------------------------------------------
(* C27: a failing evaluation is recorded and followed by refine *)

\* the evaluations so far that failed: one Memory record each
Failures == Len(memories)

\* C27: every failing evaluation is in Memory and was followed by a refine
\* call, the text evaluated next is not the text that just failed, and the
\* text handed to the originality check after a failure is a refined one.
C27_RefineOnFailure ==
    /\ Len(evaluated) <= MaxReflexionIterations
    /\ refineCalls = Failures
    /\ \A k \in 1..(Len(evaluated) - 1) : evaluated[k + 1] # evaluated[k]
    /\ (qualityPc = "ensureOriginal" /\ Failures > 0) => passedOn > 0

-----------------------------------------------------------------------------
(* C28: the word overlap test *)

\* the significant words of a text: longer than 3 characters, not ignored
SignificantWords(text) == SelectSeq(Split(ToLowerCase(text)), IsSignificant)

\* the test as stated: the title has more than 5 significant words and more
\* than half of the candidate's significant words occur among them
StatedOverlap(candidate, title) ==
    LET own == SignificantWords(candidate)
        theirs == SignificantWords(title)
        shared == Cardinality({k \in DOMAIN own : \E j \in DOMAIN theirs : theirs[j] = own[k]})
    IN  /\ Len(theirs) > OverlapMinWords
        /\ 2 * shared > Len(own)

\* the texts of the current state that isTooSimilar was, or could be, given
Candidates == {summary, originalResult.finalSummary}

\* C28: the overlap test of isTooSimilar flags a candidate against a title
\* exactly when the title has more than 5 significant words and more than
\* 50% of the candidate's significant words occur in the title.
C28_WordOverlap ==
    \A candidate \in Candidates : \A n \in DOMAIN originalTitles :
        HighOverlap(ToLowerCase(candidate),
                    SelectSeq(Split(ToLowerCase(originalTitles[n])),
                              LAMBDA w : Len(w) > PhraseWordLength))
            <=> StatedOverlap(candidate, originalTitles[n])

-----------------------------------------------------------------------------
(* C29: when ensureOriginal asks for a rewrite *)

\* C29 as stated: a summary that trips neither test against any title is
\* returned unchanged, with no rewrite call.
C29_Original ==
    (ensurePc = "returned" /\ ~IsTooSimilar(inputSummary, originalTitles))
        => /\ rewriteCalls = 0
           /\ originalResult.finalSummary = inputSummary

\* C29: ensureOriginal asks for a rewrite before any test, whatever the
\* summary: at least one rewrite call is made in every call, as many as the
\* result counts attempts, and the text returned is a cleaned rewrite that
\* trips neither test, or the fallback.
C29_AlwaysRewrites ==
    /\ rewriteCalls >= 1
    /\ ensurePc = "returned" =>
         /\ originalResult.attempts = rewriteCalls
         /\ \/ originalResult.fallback
            \/ /\ originalResult.finalSummary \in {Clean(r) : r \in Rewrites(originalTitles)}
               /\ ~IsTooSimilar(originalResult.finalSummary, originalTitles)

\* a summary that trips neither test was replaced by a rewrite
C29_Witness ==
    /\ ensurePc = "returned"
    /\ ~IsTooSimilar(inputSummary, originalTitles)
    /\ ~originalResult.fallback
    /\ originalResult.finalSummary # inputSummary
    /\ rewriteCalls = 1

-----------------------------------------------------------------------------
(* C30: which text is posted after the virality stage *)

\* the AI response holds a score
Scored(entry) == entry.response.kind = "json" /\ entry.response.hasScore

\* C30: for every score 0..10 of the composed text: a composed text that
\* scored below 7 is enhanced and the enhanced text scored; the enhanced text
\* is the one used exactly when the composed text scored below 7 and the
\* enhanced text scored at least 6; otherwise the composed text is used.
C30_ViralityRule ==
    (viralPc = "done" /\ Scored(scored[1])) =>
        LET original == scored[1].response.score IN
        /\ original < ViralThreshold => Len(scored) = 2
        /\ original >= ViralThreshold => usedTweet = "composed"
        /\ (Len(scored) = 2 /\ Scored(scored[2])) =>
             (usedTweet = "enhanced"
                <=> (original < ViralThreshold
                     /\ scored[2].response.score >= EnhancedThreshold))

-----------------------------------------------------------------------------
(* C31: the degenerate-output gate *)

\* a text of each kind: "Markets rallied hard" (20 characters), "Markets
\* rallied far" (19) and the composer's "No updates at this time"
TweetText(kind) ==
    CASE kind = "ok" ->
          <<"M", "a", "r", "k", "e", "t", "s", " ", "r", "a", "l", "l",
            "i", "e", "d", " ", "h", "a", "r", "d">>
      [] kind = "short" ->
          <<"M", "a", "r", "k", "e", "t", "s", " ", "r", "a", "l", "l",
            "i", "e", "d", " ", "f", "a", "r">>
      [] OTHER ->
          <<"N", "o", " ", "u", "p", "d", "a", "t", "e", "s", " ", "a",
            "t", " ", "t", "h", "i", "s", " ", "t", "i", "m", "e">>

\* the text holds 'no updates' in any case of letters, or is under 20
\* characters long
StatedDegenerate(text) ==
    \/ IncludesText(ToLowerCase(text), NoUpdatesMarker)
    \/ Len(text) < MinTweetLength

\* C31: in news mode no run gets to the image or posting call with a first
\* tweet that holds 'no updates' or is under 20 characters, taken after the
\* virality step; a run that ends with such a first tweet has returned
\* success = false with no ids and has called no posting operation.
C31_DegenerateGate ==
    /\ \A c \in Callers :
         (NewsMode(frame[c]) /\ frame[c].pc \in {"generateImageByCategory", "post"})
             => ~StatedDegenerate(TweetText(frame[c].tweets[1]))
    /\ (NewsMode(finished) /\ finished.tweets # <<>>
            /\ StatedDegenerate(TweetText(finished.tweets[1])))
         => /\ finished.result = Failure
            /\ "post" \notin finished.called
            /\ "image" \notin finished.called
            /\ finished.posted = 0

\* the virality step made the first tweet too short, and the run ended
C31_Witness ==
    /\ NewsMode(finished)
    /\ finished.tweets = <<"short">>
    /\ "ai" \in finished.called
    /\ finished.result = Failure
    /\ finished.posted = 0

-----------------------------------------------------------------------------
(* C32: the search phrase after a failure of every AI provider *)

\* C32: when every provider of the gateway failed on the search-query prompt,
\* the first round of provider queries carries no custom query (the providers
\* build their parameters from the raw category), never a text the gateway
\* made up.
C32_RawCategoryOnFailure ==
    (fetchPc # "generateSearchQuery" /\ queryOutcome = "allFailed")
        => (~optimizedQuery /\ searchQuery = <<>>)

-----------------------------------------------------------------------------
(* C33: the summary after a failure of every AI provider *)

\* C33: when no provider of the gateway produced a text for the summary, the
\* summary returned is the first article's raw title cut to 80 characters.
C33_TitleOnGatewayFailure ==
    (sumPc = "returned" /\ sumOutcome = "allFailed")
        => sumOneLiner = SubSeq(sumArticles[1], 1,
                                IF Len(sumArticles[1]) < 80
                                THEN Len(sumArticles[1]) ELSE 80)

-----------------------------------------------------------------------------
(* C34, C35: stop() and the number of cycles *)

\* the chains with a scheduleNext() call in progress or a timer pending
Alive == {ch \in Chains : chain[ch].pc # "none"}

\* C34: once stop() has returned (and start() was not called again), no
\* pipeline run is started and no timer is armed, at whatever await the cycle
\* was when stop() was called; a run that had started may only complete.
C34_NothingAfterStop ==
    [][~schedulerIsRunning =>
          \A ch \in Chains :
             /\ chain'[ch].pc = "runPipeline" => chain[ch].pc = "runPipeline"
             /\ chain'[ch].pc = "timer" => chain[ch].pc = "timer"]_vars

\* C35: whatever the order of start(), stop(), start() and the timers, at
\* most one scheduleNext() cycle is in progress or has its timer pending.
C35_SingleCycle == Cardinality(Alive) <= 1

-----------------------------------------------------------------------------
(* C36: the title-length rule of the merge *)

\* the articles at positions before i
Earlier(articles, i) == {j \in DOMAIN articles : j < i}

\* C36: an article whose raw title has 10 characters or more and whose
\* normalized key no earlier article of the input has is kept by the merge;
\* in particular a title of exactly 10 characters is kept.
C36_TenCharactersKept ==
    mergePc # "input" =>
        \A i \in DOMAIN mergeInput :
            (/\ Len(mergeInput[i].title) >= 10
             /\ \A j \in Earlier(mergeInput, i) :
                    NormalizeTitle(mergeInput[j].title)
                        # NormalizeTitle(mergeInput[i].title))
                => \E k \in DOMAIN merged : merged[k] = mergeInput[i]
-----------------------------------------------------------------------------
(* C37: the counters after a post *)

\* C37: after a successful post whose answer carried rate-limit headers with
\* remaining = R the persisted remainingQuota is R and posts-sent-today has
\* grown by exactly 1; remainingQuota is never negative; a failed post leaves
\* posts-sent-today as it was.
C37_QuotaBookkeeping ==
    /\ postStats.remainingQuota >= 0
    /\ (postPc = "returned" /\ postOutcome = "success") =>
         /\ postStats.tweetsToday = sentBefore + 1
         /\ rateLimit # <<>> => postStats.remainingQuota = rateLimit[1]
    /\ (postPc = "returned" /\ postOutcome = "failure") =>
         postStats.tweetsToday = sentBefore

-----------------------------------------------------------------------------
(* C38: moderation during an outage of the AI providers *)

\* C38: in custom-topic mode a run gets to its posting call only after a
\* provider answered the moderation prompt with isSafe = true; a run whose
\* moderation call found every provider failing posts nothing.
C38_NoFailOpen ==
    /\ \A c \in Callers :
         frame[c].pc = "customPost" => frame[c].moderation = "safe"
    /\ finished.moderation = "outage" =>
         /\ "post" \notin finished.called
         /\ finished.posted = 0
-----------------------------------------------------------------------------
(* C39: the text posted during an outage of every AI provider *)

\* C39: a news-mode run in which every call of the gateway got the safe
\* default hands no text to the posting adapter: it ends without posting.
C39_NoPlaceholderPost ==
    (newsPc = "returned" /\ ~newsAnswered /\ newsDefaulted # {})
        => newsPosted = <<>>

-----------------------------------------------------------------------------
(* C40: how long a credential stays exhausted *)

====
